---------------------------- MODULE Spec2Model ----------------------------
(***************************************************************************)
(* A model of the Linux file-access observer (BxlObserver) of BuildXL:     *)
(* Public/Src/Sandbox/Linux/bxl_observer.cpp.                              *)
(*                                                                         *)
(* Strings of the program are sequences of one-character strings, so that  *)
(* the in-place buffer surgery of resolve_path, the sanitising loops and   *)
(* the size arithmetic of SendReport are computed as the code computes     *)
(* them.  A C pointer that is i bytes into a buffer is the index i + 1;    *)
(* the index Len(buf) + 1 is the terminating NUL.                          *)
(***************************************************************************)
EXTENDS Integers, Sequences, FiniteSets, TLC

VARIABLES
    cache,        \* cache_ : event key -> set of paths (unordered_map of unordered_set)
    cacheMtx,     \* cacheMtx_ : the thread holding the timed mutex, or "free"
    disposed,     \* disposed_
    aborted,      \* the process has ended in _fatal
    channel,      \* what the write calls of Send have put on the report pipes, in order
    fdTable,      \* fdTable_ : descriptor number -> cached path (<<>> is empty_str_)
    logging,      \* what LogDebugEnabled answers (line 149)
    failUnexpected, \* what IsFailingUnexpectedAccesses answers (a manifest flag)
    links,        \* the symbolic links of the file system: path -> target
    th,           \* per thread: its position in the code and its locals
    insCalls,     \* history: the (event, path) pairs CheckCache was asked to insert, lock held
    consults,     \* history: the consultations of the policy engine
    nOps,         \* history: how many operations have been intercepted
    useFdTable,   \* useFdTable_
    procFd,       \* the file system: what readlink("/proc/self/fd/<fd>") answers, <<>> for -1
    fdLast,       \* history: the last fd_to_path call, its result, whether it read the file system
    rp,           \* resolve_path at work: its buffer, pFullpath, visited, and what it has done
    slCfg,        \* the tracing configuration: the manifest flags and the forced-names string
    slCache,      \* staticallyLinkedProcessCache_ : vector of (key, verdict) pairs
    ptraceOk,     \* prctl(PR_SET_PTRACER, PR_SET_PTRACER_ANY) has succeeded in this process
    binFs,        \* the file system: per executable its mtime (sec, nsec) and its linkage
    slLast,       \* history: the last check_and_report_statically_linked_process call, and
                  \* the (mtime, path) pairs objdump has been run for so far
    od            \* is_statically_linked at work: its position, the child and the pipe

vars == <<cache, cacheMtx, disposed, aborted, channel, fdTable, logging,
          failUnexpected, links, th, insCalls, consults, nOps, useFdTable, procFd,
          fdLast, rp, slCfg, slCache, ptraceOk, binFs, slLast, od>>

\* what the manifest and the file system fix for the whole run
envVars == <<logging, failUnexpected, links>>

\* the descriptor resolver's own state
fdVars == <<useFdTable, procFd, fdLast>>

\* the static-link check's own state
slVars == <<slCfg, slCache, ptraceOk, binFs, slLast, od>>


-----------------------------------------------------------------------------
(* Bounds of the model *)

\* operations intercepted in one behaviour of the pipeline specifications
MaxOps == 2
\* direct CheckCache calls in one behaviour of SpecCache
MaxCalls == 2

-----------------------------------------------------------------------------
(* Small helpers *)

Min(a, b) == IF a < b THEN a ELSE b

Max(a, b) == IF a < b THEN b ELSE a

\* the path with n times the character c
Pad(c, n) == [i \in 1..n |-> c]

\* the characters of a decimal number, as printf's %d writes it
RECURSIVE Dec(_)
Dec(n) ==
    IF n < 0 THEN <<"-">> \o Dec(0 - n)
    ELSE IF n < 10 THEN <<SubSeq(<<"0","1","2","3","4","5","6","7","8","9">>, n + 1, n + 1)[1]>>
    ELSE Dec(n \div 10) \o Dec(n % 10)

\* does seq start with the characters of pre (strncmp(seq, pre, Len(pre)) == 0)
StartsWith(seq, pre) ==
    /\ Len(seq) >= Len(pre)
    /\ SubSeq(seq, 1, Len(pre)) = pre

\* a null pointer passed where a path is expected
NullPtr == <<"nullptr">>

\* empty_str_
EmptyStr == <<>>

-----------------------------------------------------------------------------
(* Event kinds (es_event_type_t) *)

\* the case labels of lines 203-213
WriteCases ==
    {"TRUNCATE", "SETATTRLIST", "SETEXTATTR", "DELETEEXTATTR", "SETFLAGS",
     "SETOWNER", "SETMODE", "WRITE", "UTIMES", "SETTIME", "SETACL"}

\* the case labels of lines 217-221
StatCases == {"GETATTRLIST", "GETEXTATTR", "LISTEXTATTR", "ACCESS", "STAT"}

\* kinds that IsCacheHit never looks up
ProcessEvents == {"FORK", "EXEC", "EXIT"}

\* kinds with no case label of their own
OtherEvents == {"OPEN", "READLINK", "RENAME", "UNLINK"}

Events == WriteCases \cup StatCases \cup ProcessEvents \cup OtherEvents

\* The switch of CheckCache.  The stat-like cases assign ES_EVENT_TYPE_NOTIFY_STAT
\* at line 222 and, there being no break, run on into the default label, whose
\* assignment at line 225 is the one that stays.
CacheKey(event) ==
    CASE event \in WriteCases -> "WRITE"
      [] event \in StatCases  -> event
      [] OTHER                -> event


-----------------------------------------------------------------------------
(* Paths *)

\* "/tmp/build/../build/out.txt"
PathDotDot ==
    <<"/","t","m","p","/","b","u","i","l","d","/",".",".","/",
      "b","u","i","l","d","/","o","u","t",".","t","x","t">>

\* "/tmp/build/out.txt"
PathOut == <<"/","t","m","p","/","b","u","i","l","d","/","o","u","t",".","t","x","t">>

\* "/b"
PathB == <<"/", "b">>

\* "/memfd:x", the name stat reports for an anonymous file
PathMemfd == <<"/","m","e","m","f","d",":","x">>

\* static void shift_left(char *str, int n), lines 1062-1068: the characters from
\* index s to the NUL move n places to the left
shift_left(buf, s, n) == SubSeq(buf, 1, s - n - 1) \o SubSeq(buf, s, Len(buf))

\* static char* find_prev_slash(char *pStr), lines 1070-1074
find_prev_slash(buf, p) ==
    CHOOSE q \in 1..(p - 1) :
        /\ buf[q] = "/"
        /\ \A r \in (q + 1)..(p - 1) : buf[r] # "/"

\* a collapse test that takes every slash for the end of an empty component
collapse_kind_any_slash(buf, p) ==
    IF p <= Len(buf) /\ buf[p] = "/" THEN "empty" ELSE "none"

\* a collapse test without the "/./" case of line 1100
collapse_kind_no_dot(buf, p) ==
    LET parentDirLen == p - find_prev_slash(buf, p) - 1
    IN  IF ~(p <= Len(buf) /\ buf[p] = "/") THEN "none"
        ELSE IF parentDirLen = 0 THEN "empty"
        ELSE IF parentDirLen = 2 /\ buf[p - 1] = "." /\ buf[p - 2] = "." THEN "dotdot"
        ELSE "none"

\* which of the branches of lines 1092-1118 is taken with pFullpath at p:
\* "//" (line 1096), "/./" (line 1101), "/../" (line 1107), or none of them
collapse_kind(buf, p) ==
    LET parentDirLen == p - find_prev_slash(buf, p) - 1
    IN  IF ~(p <= Len(buf) /\ buf[p] = "/") THEN "none"
        ELSE IF parentDirLen = 0 THEN "empty"
        ELSE IF parentDirLen = 1 /\ buf[p - 1] = "." THEN "dot"
        ELSE IF parentDirLen = 2 /\ buf[p - 1] = "." /\ buf[p - 2] = "." THEN "dotdot"
        ELSE "none"

\* a visited test that never finds the link
already_visited_never(visited, prefix) ==
    FALSE

\* !visited.insert(fullpath).second, line 1151
already_visited(visited, prefix) ==
    prefix \in visited

\* lines 1155-1158 with the rest of the path copied from pFullpath always
append_rest_from_slash(target, rest) == target \o rest

\* the strcpy of lines 1155-1158: the rest of the path is appended to the target
\* in readlinkBuf, from pFullpath + 1 when the target ends with a slash and
\* *pFullpath is one
append_rest(target, rest) ==
    target \o (IF target[Len(target)] = "/" /\ rest # <<>> /\ rest[1] = "/"
               THEN Tail(rest) ELSE rest)

\* One round of the loop of resolve_path, lines 1089-1171, from its top to the next
\* continue or break.  p is pFullpath; visited is the set of link prefixes already
\* reported; reports are the paths handed to report_access_internal("_readlink", ...)
\* in order; queries are the paths handed to real_readlink in order; done says that
\* the round ended in a break.
resolve_round(buf, p, visited, reports, queries, followFinalSymlink, lnk) ==
    LET atSlash == p <= Len(buf) /\ buf[p] = "/"
        prev == find_prev_slash(buf, p)
        kind == collapse_kind(buf, p)
        go(buf2, p2) == [buf |-> buf2, p |-> p2, visited |-> visited, reports |-> reports,
                         queries |-> queries, done |-> FALSE]
    IN  IF kind = "empty"
        THEN go(shift_left(buf, p + 1, 1), p)
        ELSE IF kind = "dot"
        THEN go(shift_left(buf, p + 1, 2), p - 1)
        ELSE IF kind = "dotdot"
        THEN LET pPrevSlash == IF prev > 1 THEN find_prev_slash(buf, prev) ELSE prev
                 shiftLen == p - pPrevSlash
             IN  go(shift_left(buf, p + 1, shiftLen), pPrevSlash + 1)
        ELSE LET atEnd == p > Len(buf)
                 asked == atSlash \/ (atEnd /\ followFinalSymlink)
                 prefix == SubSeq(buf, 1, p - 1)
                 queries2 == IF asked THEN Append(queries, prefix) ELSE queries
             IN  IF ~(asked /\ prefix \in DOMAIN lnk)
                 THEN [buf |-> buf, p |-> IF atEnd THEN p ELSE p + 1, visited |-> visited,
                       reports |-> reports, queries |-> queries2, done |-> atEnd]
                 ELSE IF already_visited(visited, prefix)
                 THEN \* line 1151: break, with the NUL written at line 1149 left in place
                      [buf |-> prefix, p |-> p, visited |-> visited, reports |-> reports,
                       queries |-> queries2, done |-> TRUE]
                 ELSE LET target == lnk[prefix]
                          rest == SubSeq(buf, p, Len(buf))
                          joined == append_rest(target, rest)
                          q == find_prev_slash(buf, p)
                      IN  [buf |-> IF joined[1] = "/" THEN joined
                                   ELSE SubSeq(buf, 1, q) \o joined,
                           p |-> IF joined[1] = "/" THEN 2 ELSE q + 1,
                           visited |-> visited \cup {prefix},
                           reports |-> Append(reports, prefix),
                           queries |-> queries2,
                           done |-> FALSE]

\* The loop of resolve_path, lines 1089-1171: rounds until one breaks
RECURSIVE resolve_loop(_, _, _, _, _, _, _)
resolve_loop(buf, p, visited, reports, queries, followFinalSymlink, lnk) ==
    LET r == resolve_round(buf, p, visited, reports, queries, followFinalSymlink, lnk)
    IN  IF r.done
        THEN [path |-> r.buf, reports |-> r.reports, queries |-> r.queries]
        ELSE resolve_loop(r.buf, r.p, r.visited, r.reports, r.queries,
                          followFinalSymlink, lnk)

\* a resolve_path whose loop skips the "/../" branch of lines 1107-1118
resolve_path_keeps_dotdot(fullpath, followFinalSymlink, lnk) ==
    [path |-> fullpath, reports |-> <<>>, queries |-> <<>>]

\* void BxlObserver::resolve_path(char *fullpath, bool followFinalSymlink, pid_t)
resolve_path(fullpath, followFinalSymlink, lnk) ==
    IF fullpath = EmptyStr \/ fullpath[1] # "/"
    THEN [path |-> fullpath, reports |-> <<>>, queries |-> <<>>]
    ELSE resolve_loop(fullpath, 2, {}, <<>>, <<>>, followFinalSymlink, lnk)

\* what getcurrentworkingdirectory answers: "/w"
Cwd == <<"/", "w">>

\* void BxlObserver::relative_to_absolute(pathname, AT_FDCWD, pid, fullpath)
relative_to_absolute(pathname) ==
    IF pathname = EmptyStr \/ pathname[1] # "/"
    THEN Cwd \o <<"/">> \o pathname
    ELSE pathname

\* std::string BxlObserver::normalize_path_at(AT_FDCWD, pathname, oflags, pid),
\* which normalize_path(pathname, oflags, pid) stands for
normalize_path(pathname, noFollow, lnk) ==
    resolve_path(relative_to_absolute(pathname), ~noFollow, lnk)

-----------------------------------------------------------------------------
(* Access reports and their wire format *)

\* limits.h: the largest write a pipe takes atomically (used at lines 291, 351)
PIPE_BUF == 4096

\* sizeof(uint), line 350
PrefixLength == 4

\* sys/param.h: the size of AccessReport::path (line 172)
MAXPATHLEN == 4096

\* what getpid, pip_->GetProcessId and pip_->GetPipId answer
Ids == [pid |-> 70, rootPid |-> 7, pipId |-> 1234]

\* FileAccessStatus, RequestedAccess and ReportLevel, as the %d of BuildReport prints them
StatusCode == [Allowed |-> 1, Denied |-> 2]

AccessCode == [Read |-> 1, Write |-> 2]

\* FileOperation, as the %d of BuildReport prints it
OperationCode(operation) ==
    CASE operation = "kOpProcessTreeCompleted"      -> 3
      [] operation = "kOpDebugMessage"              -> 60
      [] operation = "kOpStaticallyLinkedProcess"   -> 61
      [] operation = "kOpProcessCommandLine"        -> 62
      [] operation = "kOpFirstAllowWriteCheckInProcess" -> 63
      [] operation = "kOpProcessExit"               -> 2
      [] OTHER                                      -> 10

\* an AccessReport of a default-constructed AccessReportGroup: not to be reported
EmptyReport ==
    [operation |-> "none", pid |-> 0, rootPid |-> 0, requestedAccess |-> 0,
     status |-> 0, reportExplicitly |-> 0, error |-> 0, pipId |-> 0,
     path |-> EmptyStr, isDirectory |-> 0, shouldReport |-> FALSE]

\* int BuildReport(char *buffer, int maxMessageLength, const AccessReport&, const char *path):
\* the record snprintf formats, the path being its last field before the newline
BuildReportText(report, path) ==
    Dec(OperationCode(report.operation)) \o <<"|">> \o
    Dec(report.pid) \o <<"|">> \o
    Dec(report.rootPid) \o <<"|">> \o
    Dec(report.requestedAccess) \o <<"|">> \o
    Dec(report.status) \o <<"|">> \o
    Dec(report.reportExplicitly) \o <<"|">> \o
    Dec(report.error) \o <<"|">> \o
    Dec(report.pipId) \o <<"|">> \o
    Dec(report.isDirectory) \o <<"|">> \o
    path \o <<"\n">>

\* line 352
maxMessageLength == PIPE_BUF - PrefixLength

\* lines 355-362: the report does not fit and must not be cropped
MustFailNever(reportSize, isDebugMessage) == FALSE

MustFailAlsoDebug(reportSize, isDebugMessage) == reportSize >= maxMessageLength

MustFail(reportSize, isDebugMessage) ==
    reportSize >= maxMessageLength /\ ~isDebugMessage

\* lines 369-373 with the whole path copied
TruncatedMessageWhole(path, reportSize) == path

\* lines 369-373: truncatedMessage, the first truncatedSize - 1 characters of the path
TruncatedMessage(path, reportSize) ==
    LET truncatedSize == Len(path) - (reportSize - maxMessageLength) - 1
    IN  SubSeq(path, 1, truncatedSize - 1)

\* line 380: the byte count handed to Send
SendSize(reportSize) == Min(reportSize + PrefixLength, PIPE_BUF)

\* bool BuildXL::SendReport(const AccessReport&, bool isDebugMessage, bool useSecondaryPipe),
\* lines 341-381, up to the call of Send: what is to be done with the report.
\* prefix is the value stored in the first four bytes, rec the bytes after them.
SendReportPlan(report, isDebugMessage) ==
    IF report.operation = "kOpProcessTreeCompleted"
    THEN [kind |-> "nothing"]
    ELSE LET size1 == Len(BuildReportText(report, report.path))
         IN  IF MustFail(size1, isDebugMessage)
             THEN [kind |-> "fatal"]
             ELSE LET path2 == IF size1 >= maxMessageLength
                               THEN TruncatedMessage(report.path, size1)
                               ELSE report.path
                      text == BuildReportText(report, path2)
                      reportSize == Len(text)
                      \* snprintf stores at most maxMessageLength - 1 characters
                      stored == SubSeq(text, 1, Min(reportSize, maxMessageLength - 1))
                      bufsiz == SendSize(reportSize)
                      nRec == bufsiz - PrefixLength
                  IN  [kind   |-> "send",
                       prefix |-> reportSize,   \* *(uint*)(buffer) = reportSize
                       bufsiz |-> bufsiz,
                       path   |-> path2,
                       rec    |-> [i \in 1..nRec |->
                                     IF i <= Len(stored) THEN stored[i] ELSE "NUL"]]

\* line 291: Send refuses what a pipe cannot take atomically
SendRefuses(bufsiz) == bufsiz > PIPE_BUF

\* line 303: the write calls Send issues for a buffer, as their byte counts
SendWritesSplit(bufsiz) == <<PrefixLength, bufsiz - PrefixLength>>

SendWrites(bufsiz) == <<bufsiz>>

-----------------------------------------------------------------------------
(* Debug messages: BxlObserver::LogDebug, lines 147-193 *)

\* lines 178-189: '|' and line ends are replaced in the message
Sanitize(text) ==
    [i \in 1..Len(text) |->
        IF text[i] = "|" THEN "!"
        ELSE IF text[i] = "\n" \/ text[i] = "\r" THEN "."
        ELSE text[i]]

\* lines 152-191: the report LogDebug hands to SendReport for a formatted message;
\* vsnprintf keeps at most MAXPATHLEN - 1 characters of it
DebugReport(text) ==
    [operation |-> "kOpDebugMessage", pid |-> Ids.pid, rootPid |-> Ids.rootPid,
     requestedAccess |-> AccessCode.Read, status |-> StatusCode.Allowed,
     reportExplicitly |-> 0, error |-> 0, pipId |-> Ids.pipId,
     path |-> Sanitize(SubSeq(text, 1, Min(Len(text), MAXPATHLEN - 1))),
     isDirectory |-> 0, shouldReport |-> TRUE]

\* the syscall name the interception points pass: "open"
SyscallName == <<"o", "p", "e", "n">>

\* printf's %<w>s and %<w>d: right-justified in a field of w characters
PadLeft(text, w) == Pad(" ", Max(0, w - Len(text))) \o text

\* the text LOG_DEBUG formats at lines 453, 472, 560, 567: "Can't ... <syscall> ..."
DebugTextNoPath == <<"C","a","n","'","t"," ">> \o SyscallName

\* line 548: "(( %10s:%2d )) %s %s%s"
DebugTextAccess(eventCode, path, checked, deny, blocked) ==
    <<"(", "(", " ">> \o PadLeft(SyscallName, 10) \o <<":">> \o PadLeft(Dec(eventCode), 2)
    \o <<" ", ")", ")", " ">> \o path \o <<" ">>
    \o (IF ~checked THEN <<"[","I","g","n","o","r","e","d","]">>
        ELSE IF deny THEN <<"[","D","e","n","i","e","d","]">>
        ELSE <<"[","A","l","l","o","w","e","d","]">>)
    \o (IF blocked THEN <<"[","B","l","o","c","k","e","d","]">> ELSE <<>>)

\* the number %2d prints for an event kind
EventCode(event) ==
    CASE event \in WriteCases -> 20
      [] event \in StatCases -> 30
      [] event \in ProcessEvents -> 1
      [] OTHER -> 5

-----------------------------------------------------------------------------
(* Threads of the traced process *)

Threads == {"t1", "t2"}

\* no operation
NoInput ==
    [entry |-> "none", ev |-> "OPEN", pathname |-> EmptyStr, secondPath |-> EmptyStr,
     mode |-> "none", fsMode |-> "reg", checkCache |-> FALSE, enabled |-> FALSE,
     report |-> FALSE, deny |-> FALSE, error |-> 0, fd |-> -1]

\* history: what is remembered of a thread's previous operation
NoSummary ==
    [valid |-> FALSE, inp |-> NoInput, path |-> EmptyStr, sent |-> <<>>,
     consulted |-> FALSE, probe |-> "none"]

\* a thread that is not inside any operation of the observer
IdleThread ==
    [pc        |-> "idle",    \* where the thread is
     ra        |-> "idle",    \* where CheckCache returns to
     fn        |-> "none",    \* the function that was entered
     ev        |-> "OPEN",    \* the event kind at hand
     path      |-> EmptyStr,  \* the (first) path at hand
     second    |-> EmptyStr,  \* the second path at hand
     mode      |-> "none",    \* the mode at hand ("none" is 0: not computed yet)
     checkCache |-> FALSE,    \* checkCache
     add       |-> FALSE,     \* addEntryIfMissing
     ret       |-> FALSE,     \* what CheckCache / IsCacheHit returned
     locked    |-> FALSE,     \* whether that CheckCache call got the mutex
     insBefore |-> {},        \* history: insCalls as the critical section found it
     inp       |-> NoInput,   \* the intercepted operation
     opNo      |-> 0,         \* history: its number
     todo      |-> <<>>,      \* the report_access_internal calls it still has to make
     probe     |-> "none",    \* history: how IsCacheHit ended (bypass, hit, miss, timeout)
     consulted |-> FALSE,     \* history: the policy engine was consulted
     blocked   |-> FALSE,     \* accessShouldBeBlocked
     grp       |-> <<EmptyReport, EmptyReport>>,  \* the AccessReportGroup
     sendq     |-> <<>>,      \* the SendReport calls still to make, in order
     sent      |-> <<>>,      \* history: the reports handed to write, in order
     known     |-> {},        \* history: the READLINK paths cache_ held at interception
     prev      |-> NoSummary] \* history: the operation before this one

Summary(rec) ==
    [valid |-> rec.inp.entry # "none", inp |-> rec.inp, path |-> rec.path,
     sent |-> rec.sent, consulted |-> rec.consulted, probe |-> rec.probe]

-----------------------------------------------------------------------------
(* BxlObserver::CheckCache *)

\* lines 241-261 with the insertion reported as new whatever the set held
CheckCacheResultAlwaysNew(c, event, path, addEntryIfMissing) == FALSE

\* lines 241-261: the value returned inside the critical section
CheckCacheResult(c, event, path, addEntryIfMissing) ==
    LET key == CacheKey(event)
    IN  IF key \notin DOMAIN c
        THEN FALSE                   \* it == cache_.end()
        ELSE path \in c[key]         \* !insert(path).second, or find(path) != end()

\* lines 241-261: cache_ as the critical section leaves it
CheckCacheUpdateNoInsert(c, event, path, addEntryIfMissing) == c

CheckCacheUpdate(c, event, path, addEntryIfMissing) ==
    LET key == CacheKey(event)
    IN  IF ~addEntryIfMissing
        THEN c
        ELSE [k \in DOMAIN c \cup {key} |->
                IF k = key
                THEN (IF k \in DOMAIN c THEN c[k] ELSE {}) \cup {path}
                ELSE c[k]]

\* line 231: try_lock_for succeeds
LockAcquire(t) ==
    /\ ~aborted
    /\ th[t].pc = "lock"
    /\ cacheMtx = "free"
    /\ cacheMtx' = t
    /\ th' = [th EXCEPT ![t].pc = "cs"]
    /\ UNCHANGED <<cache, disposed, aborted, channel, fdTable, envVars, slVars, fdVars, rp,
                   consults, insCalls, nOps>>

\* line 231 with a mutex that is waited for without a time limit
LockTimeoutNever(t) ==
    /\ FALSE
    /\ UNCHANGED vars

\* lines 231-234: another thread kept the mutex for the whole bounded wait
LockTimeout(t) ==
    /\ ~aborted
    /\ th[t].pc = "lock"
    /\ cacheMtx \notin {"free", t}
    /\ th' = [th EXCEPT ![t].pc = th[t].ra,
                        ![t].ret = FALSE,
                        ![t].locked = FALSE,
                        ![t].probe = IF th[t].ra = "probed" THEN "timeout" ELSE th[t].probe,
                        ![t].insBefore = insCalls]
    /\ UNCHANGED <<cache, cacheMtx, disposed, aborted, channel, fdTable, envVars, slVars,
                   fdVars, rp, consults, insCalls, nOps>>

\* lines 236-262: the critical section; the shared_ptr's deleter unlocks on return
CriticalSection(t) ==
    /\ ~aborted
    /\ th[t].pc = "cs"
    /\ cacheMtx = t
    /\ cache' = CheckCacheUpdate(cache, th[t].ev, th[t].path, th[t].add)
    /\ cacheMtx' = "free"
    /\ th' = [th EXCEPT ![t].pc = th[t].ra,
                        ![t].ret = CheckCacheResult(cache, th[t].ev, th[t].path, th[t].add),
                        ![t].locked = TRUE,
                        ![t].insBefore = insCalls]
    /\ insCalls' = IF th[t].add THEN insCalls \cup {<<th[t].ev, th[t].path>>} ELSE insCalls
    /\ UNCHANGED <<disposed, aborted, channel, fdTable, envVars, slVars, fdVars, rp,
                   consults, nOps>>

-----------------------------------------------------------------------------
(* BxlObserver::IsCacheHit *)

\* lines 271-278 without the test of the event kind
IsCacheHitBypassNoEvents(isDisposed, event, secondPath) ==
    isDisposed \/ Len(secondPath) > 0

\* lines 271-278: the cases in which the cache is not looked at
IsCacheHitBypass(isDisposed, event, secondPath) ==
    \/ isDisposed
    \/ Len(secondPath) > 0
    \/ event = "FORK"
    \/ event = "EXEC"
    \/ event = "EXIT"

-----------------------------------------------------------------------------
(* Direct calls of the cache functions (SpecCache) *)

\* the paths the direct calls are made with
CachePaths == {<<"/", "a">>, PathB}

\* the event kinds CheckCache is called with: every case label, and two others
CacheEvents == WriteCases \cup StatCases \cup {"EXEC", "OPEN"}

\* a caller invokes CheckCache(event, path, addEntryIfMissing)
CallCheckCache(t) ==
    /\ ~aborted
    /\ th[t].pc = "idle"
    /\ nOps < MaxCalls
    /\ \E e \in CacheEvents, p \in CachePaths, a \in BOOLEAN :
          th' = [th EXCEPT ![t] = [IdleThread EXCEPT !.pc = "lock", !.ra = "ret",
                                                     !.fn = "CheckCache",
                                                     !.ev = e, !.path = p, !.add = a]]
    /\ nOps' = nOps + 1
    /\ UNCHANGED <<cache, cacheMtx, disposed, aborted, channel, fdTable, envVars, slVars,
                   fdVars, rp, consults, insCalls>>

\* a caller invokes IsCacheHit(event, path, secondPath), lines 264-281
CallIsCacheHit(t) ==
    /\ ~aborted
    /\ th[t].pc = "idle"
    /\ nOps < MaxCalls
    /\ \E e \in CacheEvents \cup ProcessEvents, p \in CachePaths, sp \in {EmptyStr, PathB} :
          th' = [th EXCEPT ![t] =
                    IF IsCacheHitBypass(disposed, e, sp)
                    THEN [IdleThread EXCEPT !.pc = "ret", !.fn = "IsCacheHit", !.ev = e,
                                            !.path = p, !.second = sp, !.ret = FALSE,
                                            !.probe = "bypass"]
                    ELSE [IdleThread EXCEPT !.pc = "lock", !.ra = "ret",
                                            !.fn = "IsCacheHit", !.ev = e, !.path = p,
                                            !.second = sp, !.add = FALSE]]
    /\ nOps' = nOps + 1
    /\ UNCHANGED <<cache, cacheMtx, disposed, aborted, channel, fdTable, envVars, slVars,
                   fdVars, rp, consults, insCalls>>

\* the caller has read the result
ReturnToCaller(t) ==
    /\ ~aborted
    /\ th[t].pc = "ret"
    /\ th' = [th EXCEPT ![t] = IdleThread]
    /\ UNCHANGED <<cache, cacheMtx, disposed, aborted, channel, fdTable, envVars, slVars,
                   fdVars, rp, consults, insCalls, nOps>>

\* the singleton is destroyed at exit while intercepted calls still arrive
\* (the comment at lines 266-269)
Dispose ==
    /\ ~aborted
    /\ ~disposed
    /\ disposed' = TRUE
    /\ UNCHANGED <<cache, cacheMtx, aborted, channel, fdTable, envVars, slVars, fdVars, rp,
                   th, insCalls, consults, nOps>>

-----------------------------------------------------------------------------
(* The access-reporting pipeline: report_access, create_access, SendReport, Send *)

\* lines 617-621 with every mode taken for a file
is_non_file_never(mode) == FALSE

\* bool BxlObserver::is_non_file(const mode_t mode), lines 617-621
is_non_file(mode) == mode \notin {"none", "dir", "reg", "lnk"}

\* bool BxlObserver::is_anonymous_file(string path), lines 623-628
is_anonymous_file(path) == StartsWith(path, <<"/","m","e","m","f","d",":">>)

\* IOHandler::CheckAccessAndBuildReport: the report the policy engine builds for one
\* path of an event, given its decision
PolicyReport(event, path, report, deny) ==
    [operation |-> event, pid |-> Ids.pid, rootPid |-> Ids.rootPid,
     requestedAccess |-> IF event \in WriteCases THEN AccessCode.Write ELSE AccessCode.Read,
     status |-> IF deny THEN StatusCode.Denied ELSE StatusCode.Allowed,
     reportExplicitly |-> 0, error |-> 0, pipId |-> Ids.pipId,
     path |-> path, isDirectory |-> 0, shouldReport |-> report]

\* IOHandler::CheckAccessAndBuildReport: the group it fills, one report per path
PolicyGroup(event, path, secondPath, report, deny) ==
    <<PolicyReport(event, path, report, deny),
      IF Len(secondPath) > 0 THEN PolicyReport(event, secondPath, report, deny)
      ELSE EmptyReport>>

\* AccessReportGroup::SetErrno, lines 464 and 595
SetErrno(grp, error) == [i \in 1..2 |-> [grp[i] EXCEPT !.error = error]]

\* lines 328-339 with the second report sent ahead of the first
GroupSendsSecondFirst(grp) ==
    (IF grp[2].shouldReport THEN <<grp[2]>> ELSE <<>>) \o
    (IF grp[1].shouldReport THEN <<grp[1]>> ELSE <<>>)

\* bool BxlObserver::SendReport(const AccessReportGroup&), lines 328-339: the
\* SendReport calls it makes, in order
GroupSends(grp) ==
    (IF grp[1].shouldReport THEN <<grp[1]>> ELSE <<>>) \o
    (IF grp[2].shouldReport THEN <<grp[2]>> ELSE <<>>)

\* a SendReport call still to be made
SendCall(report, isDebugMessage) ==
    [report |-> report, isDebug |-> isDebugMessage, secondary |-> FALSE]

\* LOG_DEBUG: a call of LogDebug when LogDebugEnabled()
LogDebugCalls(text) == IF logging THEN <<SendCall(DebugReport(text), TRUE)>> ELSE <<>>

\* one call of report_access_internal, lines 460-466
Item(event, path, secondPath, mode, checkCache) ==
    [ev |-> event, path |-> path, second |-> secondPath, mode |-> mode,
     checkCache |-> checkCache]

\* lines 481-485: create_access_internal asks IsCacheHit when checkCache is set
StartItem(rec, item) ==
    LET base == [rec EXCEPT !.ev = item.ev, !.path = item.path, !.second = item.second,
                            !.mode = item.mode, !.checkCache = item.checkCache,
                            !.grp = <<EmptyReport, EmptyReport>>, !.blocked = FALSE,
                            !.sendq = <<>>]
    IN  IF item.checkCache /\ ~IsCacheHitBypass(disposed, item.ev, item.second)
        THEN [base EXCEPT !.pc = "lock", !.ra = "probed", !.add = FALSE]
        ELSE [base EXCEPT !.pc = "check",
                          !.probe = IF item.checkCache THEN "bypass" ELSE "none"]

\* The entry points, up to the first call of report_access_internal:
\*   report_access(syscall, event, pathname, mode, flags, error, checkCache, pid), 555-572
\*   report_access(syscall, event, reportPath, secondPath, mode, error, checkCache, pid), 448-458
Begin(rec, in, opNo) ==
    LET base == [IdleThread EXCEPT !.fn = in.entry, !.inp = in, !.opNo = opNo,
                                   !.prev = Summary(rec),
                                   !.known = IF CacheKey("READLINK") \in DOMAIN cache
                                             THEN cache[CacheKey("READLINK")] ELSE {}]
        giveUp == [base EXCEPT !.pc = "send", !.sendq = LogDebugCalls(DebugTextNoPath)]
    IN  IF in.entry = "report_access_path"
        THEN IF in.pathname = NullPtr
             THEN giveUp
             ELSE LET n == normalize_path(in.pathname, FALSE, links)
                      readlinks == [i \in 1..Len(n.reports) |->
                                       Item("READLINK", n.reports[i], EmptyStr, "none", TRUE)]
                      items == Append(readlinks,
                                      Item(in.ev, n.path, EmptyStr, in.mode, in.checkCache))
                  IN  IF Len(n.path) = 0
                      THEN giveUp
                      ELSE StartItem([base EXCEPT !.todo = items], items[1])
        ELSE IF in.pathname = NullPtr \/ in.secondPath = NullPtr
             THEN giveUp
             ELSE LET item == Item(in.ev, in.pathname, in.secondPath, in.mode, in.checkCache)
                  IN  StartItem([base EXCEPT !.todo = <<item>>], item)

\* an operation of the traced program is intercepted
Intercept(t, inputs) ==
    /\ ~aborted
    /\ th[t].pc = "idle"
    /\ nOps < MaxOps
    /\ \E in \in inputs : th' = [th EXCEPT ![t] = Begin(th[t], in, nOps + 1)]
    /\ nOps' = nOps + 1
    /\ UNCHANGED <<cache, cacheMtx, disposed, aborted, channel, fdTable, envVars, slVars,
                   fdVars, rp, insCalls, consults>>

\* lines 482-485: IsCacheHit has answered
Probed(t) ==
    /\ ~aborted
    /\ th[t].pc = "probed"
    /\ th' = [th EXCEPT ![t] =
                IF th[t].ret
                THEN [th[t] EXCEPT !.pc = "send", !.probe = "hit"]   \* return sNotChecked
                ELSE [th[t] EXCEPT !.pc = "check",
                                   !.probe = IF th[t].locked THEN "miss" ELSE "timeout"]]
    /\ UNCHANGED <<cache, cacheMtx, disposed, aborted, channel, fdTable, envVars, slVars,
                   fdVars, rp, insCalls, consults, nOps>>

\* lines 539-545 with the access cached whether or not it will be blocked
ShouldCacheAlways(deny) == TRUE

\* lines 539-545 with no access ever cached
ShouldCacheNever(deny) == FALSE

\* lines 538-539: the access is cached unless it is going to be blocked
ShouldCache(deny) == ~(deny /\ failUnexpected)

\* lines 487-504 of create_access_internal and 514-546 of create_access(IOEvent&):
\* the mode and anonymous-file tests, the policy engine, the decision to cache
Check(t) ==
    /\ ~aborted
    /\ th[t].pc = "check"
    /\ LET r == th[t]
           mode == IF r.mode = "none" THEN r.inp.fsMode ELSE r.mode   \* get_mode(reportPath)
           notChecked ==
               \/ is_non_file(mode)
               \/ is_anonymous_file(r.path)
               \/ (Len(r.second) > 0 /\ is_anonymous_file(r.second))
       IN  IF notChecked
           THEN /\ th' = [th EXCEPT ![t].pc = "send"]        \* return sNotChecked
                /\ UNCHANGED consults
           ELSE IF ~r.inp.enabled                            \* !IsEnabled(pid)
           THEN /\ th' = [th EXCEPT ![t].pc = "log"]
                /\ UNCHANGED consults
           ELSE /\ consults' = consults \cup
                       {[ev |-> r.ev, path |-> r.path, second |-> r.second,
                         report |-> r.inp.report, deny |-> r.inp.deny]}
                /\ th' = [th EXCEPT ![t] =
                            [r EXCEPT !.consulted = TRUE,
                                      !.grp = PolicyGroup(r.ev, r.path, r.second,
                                                          r.inp.report, r.inp.deny),
                                      !.blocked = ~ShouldCache(r.inp.deny),
                                      !.pc = IF ShouldCache(r.inp.deny) THEN "lock" ELSE "log",
                                      !.ra = "log",
                                      !.add = TRUE]]
    /\ UNCHANGED <<cache, cacheMtx, disposed, aborted, channel, fdTable, envVars, slVars,
                   fdVars, rp, insCalls, nOps>>

\* line 548 (LOG_DEBUG), then lines 464-465: SetErrno and SendReport(group)
Log(t) ==
    /\ ~aborted
    /\ th[t].pc = "log"
    /\ LET r == th[t]
           text == DebugTextAccess(EventCode(r.ev), r.path, r.consulted /\ r.inp.report,
                                   r.inp.deny, r.blocked)
           grp == SetErrno(r.grp, r.inp.error)
           sends == [i \in 1..Len(GroupSends(grp)) |-> SendCall(GroupSends(grp)[i], FALSE)]
       IN  th' = [th EXCEPT ![t].pc = "send",
                            ![t].grp = grp,
                            ![t].sendq = LogDebugCalls(text) \o sends]
    /\ UNCHANGED <<cache, cacheMtx, disposed, aborted, channel, fdTable, envVars, slVars,
                   fdVars, rp, insCalls, consults, nOps>>

\* what the write call of Send may do on the pipe. A blocking write of no more than
\* PIPE_BUF bytes to a pipe is all or nothing: it takes every byte or fails with -1;
\* only a larger write may come up short.
WriteOutcomes(bufsiz) ==
    IF bufsiz <= PIPE_BUF THEN {"full", "error"} ELSE {"full", "short", "error"}

\* the descriptor numbers real_open may return for the pipe: one the table has an
\* entry for, one it has none for
OpenFds == {1, 3}

\* lines 937-943 with the entry left as it is
reset_fd_table_entry_keeps(table, fd) == table

\* void BxlObserver::reset_fd_table_entry(int fd), lines 937-943
reset_fd_table_entry(table, fd) ==
    IF fd \in DOMAIN table THEN [table EXCEPT ![fd] = EmptyStr] ELSE table

\* what the write calls of one Send leave on the pipe
Written(t, call, plan, outcome) ==
    LET sizes == SendWrites(plan.bufsiz)
    IN  IF outcome = "error" THEN <<>>
        ELSE [i \in 1..Len(sizes) |->
                [pipe   |-> IF call.secondary THEN "secondary" ELSE "primary",
                 writer |-> t,
                 mid    |-> <<t, th[t].opNo, Len(th[t].sent) + 1>>,
                 n      |-> IF outcome = "short" THEN sizes[i] - 1 ELSE sizes[i],
                 prefix |-> plan.prefix,
                 rec    |-> plan.rec,
                 report |-> call.report,
                 isDebug |-> call.isDebug]]

\* SendReport(report, isDebugMessage, useSecondaryPipe), lines 341-381, and
\* Send(buf, bufsiz, useSecondaryPipe), lines 283-317, for the next report to send,
\* when real_open (line 297) answers logFd
SendNextOn(t, logFd) ==
    /\ ~aborted
    /\ th[t].pc = "send"
    /\ th[t].sendq # <<>>
    /\ LET call == Head(th[t].sendq)
           plan == SendReportPlan(call.report, call.isDebug)
       IN  IF plan.kind = "nothing"
           THEN /\ th' = [th EXCEPT ![t].sendq = Tail(th[t].sendq)]
                /\ UNCHANGED <<aborted, channel, fdTable>>
           ELSE IF plan.kind = "fatal" \/ SendRefuses(plan.bufsiz)
           THEN /\ aborted' = TRUE                                   \* _fatal
                /\ UNCHANGED <<th, channel, fdTable>>
           ELSE \E outcome \in WriteOutcomes(plan.bufsiz) :
                   /\ channel' = channel \o Written(t, call, plan, outcome)
                   /\ aborted' = (outcome = "short")                 \* lines 304-307
                   /\ fdTable' = IF outcome = "short" THEN fdTable
                                 ELSE reset_fd_table_entry(fdTable, logFd)
                   /\ th' = [th EXCEPT ![t].sendq = Tail(th[t].sendq),
                                       ![t].sent = Append(th[t].sent,
                                                    [call.report EXCEPT !.path = plan.path])]
    /\ UNCHANGED <<cache, cacheMtx, disposed, envVars, slVars, fdVars, rp, insCalls,
                   consults, nOps>>

\* the next report is sent, whatever descriptor real_open answers
SendNext(t) == \E logFd \in OpenFds : SendNextOn(t, logFd)

\* a return to the caller that does not wait for the reports still to be sent
CompleteEarly(t) ==
    /\ ~aborted
    /\ th[t].pc = "send"
    /\ th' = [th EXCEPT ![t].pc = "idle"]
    /\ UNCHANGED <<cache, cacheMtx, disposed, aborted, channel, fdTable, envVars, slVars,
                   fdVars, rp, insCalls, consults, nOps>>

\* report_access_internal returns; resolve_path goes on, or the operation is over
Complete(t) ==
    /\ ~aborted
    /\ th[t].pc = "send"
    /\ th[t].sendq = <<>>
    /\ th' = [th EXCEPT ![t] =
                IF Len(th[t].todo) > 1
                THEN StartItem([th[t] EXCEPT !.todo = Tail(th[t].todo)], th[t].todo[2])
                ELSE [th[t] EXCEPT !.pc = "idle", !.todo = <<>>]]
    /\ UNCHANGED <<cache, cacheMtx, disposed, aborted, channel, fdTable, envVars, slVars,
                   fdVars, rp, insCalls, consults, nOps>>

-----------------------------------------------------------------------------
(* The state after construction (lines 24-83): nothing cached, nothing sent *)

\* descriptor numbers the fd table has an entry for
FdRange == 0..2

NoLinks == [p \in {} |-> EmptyStr]

\* descriptor numbers fd_to_path is called with: below, inside and above the table
CallFds == {-1, 0, 1, 3}

\* no descriptor of the process is open: every readlink of /proc/<pid>/fd/<fd>
\* answers -1
NoFdLinks == [fd \in CallFds |-> EmptyStr]

\* no fd_to_path call has been made yet
NoFdCall == [tick |-> 0, fd |-> 0, pid |-> 0, ret |-> EmptyStr, readFs |-> FALSE]

\* resolve_path is not running
IdleResolve ==
    [pc |-> "idle", input |-> EmptyStr, follow |-> FALSE, buf |-> EmptyStr, p |-> 0,
     visited |-> {}, reports |-> <<>>, queries |-> <<>>, beyond |-> FALSE]

\* secondary tracing is off and no name is forced
NoTracing == [enabled |-> FALSE, uncond |-> FALSE, forced |-> EmptyStr]

\* the file system holds no executable the model looks at
NoBinaries == [p \in {} |-> 0]

\* no check_and_report_statically_linked_process call has been made yet
NoStaticCall ==
    [n |-> 0, path |-> EmptyStr, forced |-> FALSE, invoked |-> FALSE, wanted |-> FALSE,
     granted |-> FALSE, exited |-> FALSE, ret |-> FALSE, ok |-> FALSE, seen |-> {}]

\* is_statically_linked is not running
IdleObjdump ==
    [pc |-> "idle", n |-> 0, child |-> "none", pending |-> 0, got |-> 0,
     readErr |-> "never", erred |-> FALSE, tolerated |-> TRUE, others |-> FALSE,
     beyond |-> FALSE]

InitObserver ==
    /\ cache = [k \in {} |-> {}]
    /\ cacheMtx = "free"
    /\ disposed = FALSE
    /\ aborted = FALSE
    /\ channel = <<>>
    /\ fdTable = [fd \in FdRange |-> EmptyStr]
    /\ th = [t \in Threads |-> IdleThread]
    /\ insCalls = {}
    /\ consults = {}
    /\ nOps = 0
    /\ fdLast = NoFdCall
    /\ rp = IdleResolve
    /\ slCache = <<>>
    /\ ptraceOk = FALSE
    /\ slLast = NoStaticCall
    /\ od = IdleObjdump

(* SpecCache: one thread calls CheckCache and IsCacheHit with every event kind *)

InitCache ==
    /\ InitObserver
    /\ slCfg = NoTracing
    /\ binFs = NoBinaries
    /\ useFdTable = TRUE
    /\ procFd = NoFdLinks
    /\ logging = FALSE
    /\ failUnexpected = FALSE
    /\ links = NoLinks

NextCache ==
    \/ CallCheckCache("t1")
    \/ CallIsCacheHit("t1")
    \/ LockAcquire("t1")
    \/ CriticalSection("t1")
    \/ ReturnToCaller("t1")
    \/ Dispose

SpecCache == InitCache /\ [][NextCache]_vars

-----------------------------------------------------------------------------
(* SpecSeq: one thread intercepts operations one after the other *)

\* one intercepted operation: the arguments of the entry point and what the
\* environment answers while it runs (get_mode, IsEnabled, the policy engine)
Input(entry, event, pathname, secondPath, fsMode, checkCache, enabled, report, deny) ==
    [entry |-> entry, ev |-> event, pathname |-> pathname, secondPath |-> secondPath,
     mode |-> "none", fsMode |-> fsMode, checkCache |-> checkCache, enabled |-> enabled,
     report |-> report, deny |-> deny, error |-> 0, fd |-> -1]

\* the policy engine's answers: <<ShouldReport, ShouldDenyAccess>>
Decisions == {<<TRUE, FALSE>>, <<FALSE, FALSE>>, <<TRUE, TRUE>>}

SeqInputs ==
    {Input("report_access_path", e, p, EmptyStr, "reg", TRUE, TRUE, TRUE, FALSE) :
        e \in {"WRITE", "TRUNCATE"}, p \in {PathDotDot, PathOut}}
    \cup {Input("report_access_path", "WRITE", PathOut, EmptyStr, "reg", TRUE, TRUE, d[1], d[2]) :
            d \in Decisions}
    \cup {Input("report_access_path", "WRITE", PathDotDot, EmptyStr, "reg", FALSE, TRUE, TRUE, FALSE),
          Input("report_access_path", "WRITE", NullPtr, EmptyStr, "reg", TRUE, TRUE, TRUE, FALSE),
          Input("report_access_path", "WRITE", PathOut, EmptyStr, "sock", TRUE, TRUE, TRUE, FALSE),
          Input("report_access_path", "WRITE", PathOut, EmptyStr, "reg", TRUE, FALSE, TRUE, FALSE),
          Input("report_access_paths", "EXEC", PathOut, PathB, "reg", TRUE, TRUE, TRUE, FALSE),
          Input("report_access_paths", "EXEC", PathMemfd, EmptyStr, "reg", TRUE, TRUE, TRUE, FALSE)}

InitSeq ==
    /\ InitObserver
    /\ slCfg = NoTracing
    /\ binFs = NoBinaries
    /\ useFdTable = TRUE
    /\ procFd = NoFdLinks
    /\ logging \in BOOLEAN
    /\ failUnexpected \in BOOLEAN
    /\ links = NoLinks

NextSeq ==
    \/ Intercept("t1", SeqInputs)
    \/ LockAcquire("t1")
    \/ CriticalSection("t1")
    \/ Probed("t1")
    \/ Check("t1")
    \/ Log("t1")
    \/ SendNext("t1")
    \/ Complete("t1")
    \/ Dispose

SpecSeq == InitSeq /\ [][NextSeq]_vars

-----------------------------------------------------------------------------
(* Spec: two threads of the traced process intercept operations concurrently *)

ParInputs ==
    {Input("report_access_path", "WRITE", PathOut, EmptyStr, "reg", TRUE, TRUE, TRUE, d) :
        d \in BOOLEAN}

Init ==
    /\ InitObserver
    /\ slCfg = NoTracing
    /\ binFs = NoBinaries
    /\ useFdTable = TRUE
    /\ procFd = NoFdLinks
    /\ logging = FALSE
    /\ failUnexpected \in BOOLEAN
    /\ links = NoLinks

Next ==
    \/ \E t \in Threads : Intercept(t, ParInputs)
    \/ \E t \in Threads : LockAcquire(t)
    \/ \E t \in Threads : LockTimeout(t)
    \/ \E t \in Threads : CriticalSection(t)
    \/ \E t \in Threads : Probed(t)
    \/ \E t \in Threads : Check(t)
    \/ \E t \in Threads : Log(t)
    \/ \E t \in Threads : SendNext(t)
    \/ \E t \in Threads : Complete(t)

Spec == Init /\ [][Next]_vars

\* try_lock_for(1ms), line 231, returns: with the mutex, or without it when the
\* bounded wait is over
TryLockReturns(t) == LockAcquire(t) \/ LockTimeout(t)

\* SpecFair: a call of try_lock_for returns. Nothing else is assumed: a thread may stop
\* anywhere else for good, inside the critical section included.
SpecFair == Spec /\ \A t \in Threads : WF_vars(TryLockReturns(t))

-----------------------------------------------------------------------------
(* SpecSend: callers hand reports and debug messages of every size to SendReport *)

\* the length of a record whose path is empty: the fields before the path and the newline
RecordOverhead == Len(BuildReportText(DebugReport(EmptyStr), EmptyStr))

\* path lengths: short, the longest that fits, the next one
SendLengths ==
    {8, maxMessageLength - 1 - RecordOverhead, maxMessageLength - RecordOverhead}

\* the reports SendReport is called with: access reports of these lengths, debug
\* messages of the two long ones, and a kOpProcessTreeCompleted report
SendCalls ==
    {SendCall(DebugReport(Pad("d", n)), TRUE) : n \in SendLengths \ {8}}
    \cup {SendCall(PolicyReport("WRITE", <<"/">> \o Pad("a", n - 1), TRUE, FALSE), FALSE) :
            n \in SendLengths}
    \cup {SendCall([PolicyReport("WRITE", PathOut, TRUE, FALSE)
                      EXCEPT !.operation = "kOpProcessTreeCompleted"], FALSE)}

\* a caller invokes SendReport(report, isDebugMessage), lines 341-381
CallSendReport(t) ==
    /\ ~aborted
    /\ th[t].pc = "idle"
    /\ nOps < MaxOps
    /\ \E call \in SendCalls :
          th' = [th EXCEPT ![t] =
                    [IdleThread EXCEPT !.pc = "send", !.fn = "SendReport",
                                       !.opNo = nOps + 1, !.sendq = <<call>>]]
    /\ nOps' = nOps + 1
    /\ UNCHANGED <<cache, cacheMtx, disposed, aborted, channel, fdTable, envVars, slVars,
                   fdVars, rp, insCalls, consults>>

\* a caller invokes LogDebug(pid, fmt, ...), lines 147-193, with a message of any length
CallLogDebug(t) ==
    /\ ~aborted
    /\ th[t].pc = "idle"
    /\ nOps < MaxOps
    /\ \E n \in {MAXPATHLEN + 8} :
          th' = [th EXCEPT ![t] =
                    [IdleThread EXCEPT !.pc = "send", !.fn = "LogDebug",
                                       !.opNo = nOps + 1,
                                       !.sendq = <<SendCall(DebugReport(<<"|", "\n">> \o Pad("m", n)),
                                                            TRUE)>>]]
    /\ nOps' = nOps + 1
    /\ UNCHANGED <<cache, cacheMtx, disposed, aborted, channel, fdTable, envVars, slVars,
                   fdVars, rp, insCalls, consults>>

InitSend ==
    /\ InitObserver
    /\ slCfg = NoTracing
    /\ binFs = NoBinaries
    /\ useFdTable = TRUE
    /\ procFd = NoFdLinks
    /\ logging = TRUE
    /\ failUnexpected = FALSE
    /\ links = NoLinks

NextSend ==
    \/ \E t \in Threads : CallSendReport(t)
    \/ \E t \in Threads : CallLogDebug(t)
    \/ \E t \in Threads : SendNext(t)
    \/ \E t \in Threads : Complete(t)

SpecSend == InitSend /\ [][NextSend]_vars

-----------------------------------------------------------------------------
(* SpecGroup: callers hand report groups to SendReport(const AccessReportGroup&) *)

\* the groups SendReport is called with: the two reports of a two-path operation, each
\* marked reportable or not, and a default-constructed group
Groups ==
    {<<PolicyReport("RENAME", PathOut, f1, FALSE), PolicyReport("RENAME", PathB, f2, FALSE)>> :
        f1 \in BOOLEAN, f2 \in BOOLEAN}
    \cup {<<EmptyReport, EmptyReport>>}

\* a caller invokes SendReport(group), lines 328-339
CallSendGroup(t) ==
    /\ ~aborted
    /\ th[t].pc = "idle"
    /\ nOps < MaxOps
    /\ \E grp \in Groups :
          th' = [th EXCEPT ![t] =
                    [IdleThread EXCEPT !.pc = "send", !.fn = "SendReportGroup",
                                       !.opNo = nOps + 1, !.grp = grp,
                                       !.sendq = [i \in 1..Len(GroupSends(grp)) |->
                                                     SendCall(GroupSends(grp)[i], FALSE)]]]
    /\ nOps' = nOps + 1
    /\ UNCHANGED <<cache, cacheMtx, disposed, aborted, channel, fdTable, envVars, slVars,
                   fdVars, rp, insCalls, consults>>

InitGroup ==
    /\ InitObserver
    /\ slCfg = NoTracing
    /\ binFs = NoBinaries
    /\ useFdTable = TRUE
    /\ procFd = NoFdLinks
    /\ logging = FALSE
    /\ failUnexpected = FALSE
    /\ links = NoLinks

NextGroup ==
    \/ \E t \in Threads : CallSendGroup(t)
    \/ \E t \in Threads : SendNext(t)
    \/ \E t \in Threads : Complete(t)

SpecGroup == InitGroup /\ [][NextGroup]_vars

-----------------------------------------------------------------------------
(* SpecFd: descriptors are resolved while the file system and the table change *)

\* a fd_to_path that never looks into the table
fd_to_path_uncached(table, use, proc, fd) ==
    [ret |-> proc[fd], readFs |-> TRUE,
     table |-> IF fd \in FdRange /\ use /\ proc[fd] # EmptyStr
               THEN [table EXCEPT ![fd] = proc[fd]] ELSE table]

\* a fd_to_path that stores what it read without testing useFdTable_ at line 978
fd_to_path_stores_disabled(table, use, proc, fd) ==
    IF fd \notin FdRange
    THEN [ret |-> proc[fd], readFs |-> TRUE, table |-> table]
    ELSE IF use /\ Len(table[fd]) > 0
    THEN [ret |-> table[fd], readFs |-> FALSE, table |-> table]
    ELSE [ret |-> proc[fd], readFs |-> TRUE,
          table |-> IF proc[fd] # EmptyStr
                    THEN [table EXCEPT ![fd] = proc[fd]] ELSE table]

\* std::string BxlObserver::fd_to_path(int fd, pid_t associatedPid), lines 953-985.
\* proc[fd] is what read_path_for_fd leaves in the zeroed buffer: the target of
\* /proc/<pid>/fd/<fd>, or nothing when readlink answers -1.
fd_to_path(table, use, proc, fd) ==
    IF fd \notin FdRange
    THEN [ret |-> proc[fd], readFs |-> TRUE, table |-> table]
    ELSE IF use /\ Len(table[fd]) > 0
    THEN [ret |-> table[fd], readFs |-> FALSE, table |-> table]
    ELSE [ret |-> proc[fd], readFs |-> TRUE,
          table |-> IF proc[fd] # EmptyStr /\ use
                    THEN [table EXCEPT ![fd] = proc[fd]] ELSE table]

\* the paths a descriptor of the traced process can stand for
FdPaths == {<<"/", "p">>, <<"/", "q">>}

\* a caller resolves a descriptor
FdToPath(fd) ==
    LET r == fd_to_path(fdTable, useFdTable, procFd, fd)
    IN  /\ fdTable' = r.table
        /\ fdLast' = [tick |-> 1 - fdLast.tick, fd |-> fd, pid |-> 0, ret |-> r.ret,
                      readFs |-> r.readFs]
        /\ UNCHANGED <<cache, cacheMtx, disposed, aborted, channel, envVars, slVars, th,
                       insCalls, consults, nOps, useFdTable, procFd, rp>>

\* void BxlObserver::reset_fd_table_entry(int fd), called by the close interposers
ResetFdTableEntry(fd) ==
    /\ fdTable' = reset_fd_table_entry(fdTable, fd)
    /\ UNCHANGED <<cache, cacheMtx, disposed, aborted, channel, envVars, slVars, th,
                   insCalls, consults, nOps, fdVars, rp>>

\* void BxlObserver::reset_fd_table(), lines 945-951
ResetFdTable ==
    /\ fdTable' = [fd \in FdRange |-> EmptyStr]
    /\ UNCHANGED <<cache, cacheMtx, disposed, aborted, channel, envVars, slVars, th,
                   insCalls, consults, nOps, fdVars, rp>>

\* void BxlObserver::disable_fd_table(), lines 916-919
DisableFdTable ==
    /\ useFdTable
    /\ useFdTable' = FALSE
    /\ UNCHANGED <<cache, cacheMtx, disposed, aborted, channel, fdTable, envVars, slVars,
                   th, insCalls, consults, nOps, procFd, fdLast, rp>>

\* the kernel opens, closes or reuses a descriptor of the process: the link
\* /proc/<pid>/fd/<fd> that read_path_for_fd reads (line 934) changes
FsChange(fd, path) ==
    /\ fd >= 0
    /\ procFd[fd] # path
    /\ procFd' = [procFd EXCEPT ![fd] = path]
    /\ UNCHANGED <<cache, cacheMtx, disposed, aborted, channel, fdTable, envVars, slVars,
                   th, insCalls, consults, nOps, useFdTable, fdLast, rp>>

InitFd ==
    /\ InitObserver
    /\ slCfg = NoTracing
    /\ binFs = NoBinaries
    \* the initialiser of useFdTable_ is in the class declaration: either value
    /\ useFdTable \in BOOLEAN
    /\ procFd = NoFdLinks
    /\ logging = FALSE
    /\ failUnexpected = FALSE
    /\ links = NoLinks

NextFd ==
    \/ \E fd \in CallFds : FdToPath(fd)
    \/ \E fd \in CallFds : ResetFdTableEntry(fd)
    \/ ResetFdTable
    \/ DisableFdTable
    \/ \E fd \in CallFds, path \in FdPaths \cup {EmptyStr} : FsChange(fd, path)

SpecFd == InitFd /\ [][NextFd]_vars

-----------------------------------------------------------------------------
(* SpecResolve: resolve_path walks its buffer one loop round at a time *)

\* components of the input paths of SpecResolve
MaxComps == 3
\* readlink reports one call of resolve_path may raise before the model stops it
MaxReports == 3

\* the components input paths are made of: two names, ".", ".." and the empty one
Comps == {<<"x">>, <<"y">>, <<".">>, <<".", ".">>, <<>>}

\* the path "/c1/c2/.../cn"
RECURSIVE Render(_)
Render(cs) == IF cs = <<>> THEN <<>> ELSE <<"/">> \o Head(cs) \o Render(Tail(cs))

\* "/a/./b/../c"
PathRoundTrip == <<"/", "a", "/", ".", "/", "b", "/", ".", ".", "/", "c">>

\* "/x/../x/y": a path that passes through /x twice
PathTwice == <<"/", "x", "/", ".", ".", "/", "x", "/", "y">>

\* the buffers resolve_path is called with: every absolute path of up to MaxComps
\* components, "/a/./b/../c", "/x/../x/y", and one path that is not absolute
ResolveInputs ==
    {Render(cs) : cs \in UNION {[1..n -> Comps] : n \in 1..MaxComps}}
        \cup {PathRoundTrip, PathTwice, <<"x">>}

\* /x -> /y and /y -> /x
CycleLinks == (<<"/", "x">> :> <<"/", "y">>) @@ (<<"/", "y">> :> <<"/", "x">>)

\* /x -> y/ and /y/x -> ../x : relative targets, one ending in a slash
RelLinks ==
    (<<"/", "x">> :> <<"y", "/">>) @@ (<<"/", "y", "/", "x">> :> <<".", ".", "/", "x">>)

\* /x -> /y and nothing else
OneLink == (<<"/", "x">> :> <<"/", "y">>)

LinkConfigs == {NoLinks, CycleLinks, RelLinks, OneLink}

\* lines 1077-1088: the call, the test for an absolute path, pFullpath = fullpath + 1
ResolveStart(fullpath, followFinalSymlink) ==
    /\ ~aborted
    /\ rp.pc = "idle"
    /\ rp' = [pc |-> IF fullpath[1] = "/" THEN "loop" ELSE "done",
              input |-> fullpath, follow |-> followFinalSymlink, buf |-> fullpath,
              p |-> 2, visited |-> {}, reports |-> <<>>, queries |-> <<>>,
              beyond |-> FALSE]
    /\ UNCHANGED <<cache, cacheMtx, disposed, aborted, channel, fdTable, envVars, slVars,
                   th, insCalls, consults, nOps, fdVars>>

\* the size of readlinkBuf (line 1087) and of the buffers resolve_path is called
\* with (lines 996 and 1017)
PATH_MAX == 4096

\* One round of the loop of lines 1089-1171, with buffers of size cap.  No line of
\* the loop compares a length with the size of a buffer: when the strcpy of lines
\* 1155-1157 writes behind readlinkBuf, or the one of line 1163 or 1170 behind the
\* caller's buffer, the behaviour is undefined.  The process is killed at once, or
\* it goes on with what was written.
ResolveStepCap(cap) ==
    /\ ~aborted
    /\ rp.pc = "loop"
    /\ Len(rp.reports) < MaxReports
    /\ LET r == resolve_round(rp.buf, rp.p, rp.visited, rp.reports, rp.queries,
                              rp.follow, links)
           spliced == Len(r.reports) > Len(rp.reports)
           joined == append_rest(links[SubSeq(rp.buf, 1, rp.p - 1)],
                                 SubSeq(rp.buf, rp.p, Len(rp.buf)))
           over == spliced /\ (Len(joined) + 1 > cap \/ Len(r.buf) + 1 > cap)
           next == [rp EXCEPT !.pc = IF r.done THEN "done" ELSE "loop",
                              !.buf = r.buf, !.p = r.p, !.visited = r.visited,
                              !.reports = r.reports, !.queries = r.queries,
                              !.beyond = rp.beyond \/ over]
       IN  IF over
           THEN \E killed \in BOOLEAN :
                   /\ aborted' = killed
                   /\ rp' = IF killed THEN [next EXCEPT !.pc = "done"] ELSE next
           ELSE /\ rp' = next
                /\ UNCHANGED aborted
    /\ UNCHANGED <<cache, cacheMtx, disposed, channel, fdTable, envVars, slVars,
                   th, insCalls, consults, nOps, fdVars>>

\* one round of the loop of lines 1089-1171
ResolveStep == ResolveStepCap(PATH_MAX)

\* line 1172: resolve_path returns to its caller
ResolveReturn ==
    /\ ~aborted
    /\ rp.pc = "done"
    /\ rp' = IdleResolve
    /\ UNCHANGED <<cache, cacheMtx, disposed, aborted, channel, fdTable, envVars, slVars,
                   th, insCalls, consults, nOps, fdVars>>

InitResolve ==
    /\ InitObserver
    /\ slCfg = NoTracing
    /\ binFs = NoBinaries
    /\ useFdTable = TRUE
    /\ procFd = NoFdLinks
    /\ logging = FALSE
    /\ failUnexpected = FALSE
    /\ links \in LinkConfigs

NextResolve ==
    \/ \E fullpath \in ResolveInputs, f \in BOOLEAN : ResolveStart(fullpath, f)
    \/ ResolveStep
    \/ ResolveReturn

SpecResolve == InitResolve /\ [][NextResolve]_vars

\* the thread that is inside resolve_path keeps running
SpecResolveFair == SpecResolve /\ WF_vars(ResolveStep)

-----------------------------------------------------------------------------
(* SpecLinks: one thread reports accesses to paths that lead through symbolic links *)

\* "/x/f": a file below the link /x
PathXF == <<"/", "x", "/", "f">>

\* report_access(syscall, OPEN, pathname, ...) for "/x" and "/x/f", the policy engine
\* reporting every access it checks
LinksInputs ==
    {Input("report_access_path", "OPEN", p, EmptyStr, "lnk", TRUE, TRUE, TRUE, d) :
        p \in {<<"/", "x">>, PathXF}, d \in BOOLEAN}

InitLinks ==
    /\ InitObserver
    /\ slCfg = NoTracing
    /\ binFs = NoBinaries
    /\ useFdTable = TRUE
    /\ procFd = NoFdLinks
    /\ logging = FALSE
    /\ failUnexpected = FALSE
    /\ links \in {CycleLinks, RelLinks}

NextLinks ==
    \/ Intercept("t1", LinksInputs)
    \/ LockAcquire("t1")
    \/ CriticalSection("t1")
    \/ Probed("t1")
    \/ Check("t1")
    \/ Log("t1")
    \/ SendNext("t1")
    \/ Complete("t1")

SpecLinks == InitLinks /\ [][NextLinks]_vars

-----------------------------------------------------------------------------
(* SpecNorm: report_access is called with paths that are empty or relative *)

\* "f": a relative path
PathRel == <<"f">>

\* report_access(syscall, OPEN, pathname, ...) with the empty string, a relative
\* path, an absolute path and a null pointer
NormInputs ==
    {Input("report_access_path", "OPEN", p, EmptyStr, "reg", TRUE, TRUE, TRUE, FALSE) :
        p \in {EmptyStr, PathRel, PathOut, NullPtr}}

InitNorm ==
    /\ InitObserver
    /\ slCfg = NoTracing
    /\ binFs = NoBinaries
    /\ useFdTable = TRUE
    /\ procFd = NoFdLinks
    /\ logging = FALSE
    /\ failUnexpected = FALSE
    /\ links = NoLinks

NextNorm ==
    \/ Intercept("t1", NormInputs)
    \/ LockAcquire("t1")
    \/ CriticalSection("t1")
    \/ Probed("t1")
    \/ Check("t1")
    \/ Log("t1")
    \/ SendNext("t1")
    \/ Complete("t1")

SpecNorm == InitNorm /\ [][NextNorm]_vars

-----------------------------------------------------------------------------
(* SpecStatic: executables are checked for static linking while they change on disk *)

\* the constructor's loop of lines 56-70: the value of the forced-names variable cut
\* at every ';', the piece after the last ';' included
RECURSIVE SplitNames(_, _)
SplitNames(str, cur) ==
    IF str = <<>> THEN <<cur>>
    ELSE IF Head(str) = ";" THEN <<cur>> \o SplitNames(Tail(str), <<>>)
    ELSE SplitNames(Tail(str), Append(cur, Head(str)))

\* forcedPTraceProcessNames_ after construction, lines 51-71
ForcedNames(forcedprocesses) ==
    IF forcedprocesses = EmptyStr THEN <<>> ELSE SplitNames(forcedprocesses, <<>>)

\* basename(path), line 745: what follows the last '/'
Basename(path) ==
    LET slashes == {i \in DOMAIN path : path[i] = "/"}
    IN  IF slashes = {} THEN path
        ELSE SubSeq(path, (CHOOSE i \in slashes : \A j \in slashes : j <= i) + 1, Len(path))

\* an IsPTraceForced that finds no name forced
IsPTraceForcedNever(forcedprocesses, path) == FALSE

\* bool BxlObserver::IsPTraceForced(const char *path), lines 737-747
IsPTraceForced(forcedprocesses, path) ==
    LET names == ForcedNames(forcedprocesses)
    IN  IF Len(names) = 0 THEN FALSE
        ELSE \E i \in DOMAIN names : names[i] = Basename(path)

\* lines 791-793: std::to_string(statbuf.st_mtim.tv_sec) + ":" + path
StaticKey(mtim, path) == Dec(mtim.sec) \o <<":">> \o path

\* lines 795-799: the first pair of the vector with this key, 0 for end()
CacheFind(vec, key) ==
    IF \E i \in DOMAIN vec : vec[i].key = key
    THEN CHOOSE i \in DOMAIN vec : vec[i].key = key /\ \A j \in 1..(i - 1) : vec[j].key # key
    ELSE 0

\* what "objdump -p" prints for an executable: whether the program header is there
\* and whether libc is among the needed libraries
ObjdumpOutput(linkage) ==
    [header |-> linkage \in {"static", "dynamic"}, libc |-> linkage = "dynamic"]

\* bool BxlObserver::is_statically_linked(const char *path), lines 858-913
is_statically_linked(fs, path) ==
    LET out == ObjdumpOutput(fs[path].linkage)
    IN  out.header /\ ~out.libc

\* lines 749-843 without the test of line 751
check_static_always_enabled(cfg, vec, fs, path) ==
    IF IsPTraceForced(cfg.forced, path) \/ cfg.uncond
    THEN [forced |-> TRUE, invoked |-> FALSE, wanted |-> TRUE, ret |-> TRUE, cache |-> vec]
    ELSE LET key == StaticKey(fs[path].mtim, path)
             at == CacheFind(vec, key)
             verdict == IF at # 0 THEN vec[at].verdict ELSE is_statically_linked(fs, path)
         IN  [forced |-> FALSE, invoked |-> at = 0, wanted |-> verdict, ret |-> verdict,
              cache |-> IF at # 0 THEN vec
                        ELSE Append(vec, [key |-> key, verdict |-> verdict])]

\* bool BxlObserver::check_and_report_statically_linked_process(const char *path),
\* lines 749-843, up to set_ptrace_permissions and SendReport: whether the forced
\* branch is taken, whether objdump is run, whether permission and report are
\* wanted, the value to return, and staticallyLinkedProcessCache_ afterwards
check_static(cfg, vec, fs, path) ==
    IF ~cfg.enabled
    THEN [forced |-> FALSE, invoked |-> FALSE, wanted |-> FALSE, ret |-> FALSE, cache |-> vec]
    ELSE IF IsPTraceForced(cfg.forced, path) \/ cfg.uncond
    THEN [forced |-> TRUE, invoked |-> FALSE, wanted |-> TRUE, ret |-> TRUE, cache |-> vec]
    ELSE LET key == StaticKey(fs[path].mtim, path)
             at == CacheFind(vec, key)
             verdict == IF at # 0 THEN vec[at].verdict ELSE is_statically_linked(fs, path)
         IN  [forced |-> FALSE, invoked |-> at = 0, wanted |-> verdict, ret |-> verdict,
              cache |-> IF at # 0 THEN vec
                        ELSE Append(vec, [key |-> key, verdict |-> verdict])]

\* the report of lines 762-778 and 821-837
StaticReport(path) ==
    [operation |-> "kOpStaticallyLinkedProcess", pid |-> Ids.pid, rootPid |-> Ids.rootPid,
     requestedAccess |-> AccessCode.Read, status |-> StatusCode.Allowed,
     reportExplicitly |-> 1, error |-> 0, pipId |-> Ids.pipId,
     path |-> path, isDirectory |-> 0, shouldReport |-> TRUE]

\* an executable whose name is on the forced list, and one whose name is not
PathLd == <<"/", "b", "i", "n", "/", "l", "d">>
PathCc == <<"/", "b", "i", "n", "/", "c", "c">>

\* the value of the forced-names variable: "ld;as"
ForcedList == <<"l", "d", ";", "a", "s">>

\* the configurations: tracing off, on with a forced list, on with nothing
\* forced, on and forced for every process
StaticConfigs ==
    {[enabled |-> FALSE, uncond |-> FALSE, forced |-> ForcedList],
     [enabled |-> TRUE,  uncond |-> FALSE, forced |-> ForcedList],
     [enabled |-> TRUE,  uncond |-> FALSE, forced |-> EmptyStr],
     [enabled |-> TRUE,  uncond |-> TRUE,  forced |-> EmptyStr]}

\* modification times: two seconds, two instants within each
Mtims == [sec : {1, 2}, nsec : {0, 5}]

Linkages == {"static", "dynamic"}

\* a set_ptrace_permissions whose failing prctl is ignored
GrantOutcomeIgnoresFailure(wanted, ok) ==
    [granted |-> wanted, exited |-> FALSE]

\* void BxlObserver::set_ptrace_permissions(), lines 845-855, when it is called
\* (wanted) and prctl answers ok: permission is granted, or the process exits
GrantOutcome(wanted, ok) ==
    [granted |-> wanted /\ ok, exited |-> wanted /\ ~ok]

\* a caller invokes check_and_report_statically_linked_process(path); prctl may fail
CallCheckStatic(t) ==
    /\ ~aborted
    /\ th[t].pc = "idle"
    /\ nOps < MaxOps
    /\ \E path \in DOMAIN binFs, ok \in BOOLEAN :
          LET r == check_static(slCfg, slCache, binFs, path)
              g == GrantOutcome(r.wanted, ok)
              sends == IF r.wanted
                       THEN <<[SendCall(StaticReport(path), FALSE)
                                  EXCEPT !.secondary = TRUE]>>
                       ELSE <<>>
          IN  /\ slCache' = r.cache
              /\ ptraceOk' = (ptraceOk \/ g.granted)
              /\ aborted' = g.exited                                 \* exit(-1), line 853
              /\ slLast' = [n |-> nOps + 1, path |-> path, forced |-> r.forced,
                            invoked |-> r.invoked, wanted |-> r.wanted,
                            granted |-> g.granted, exited |-> g.exited, ret |-> r.ret,
                            ok |-> ok,
                            seen |-> IF r.invoked
                                     THEN slLast.seen \cup
                                          {[mtim |-> binFs[path].mtim, path |-> path]}
                                     ELSE slLast.seen]
              /\ th' = IF g.exited THEN th
                       ELSE [th EXCEPT ![t] =
                               [IdleThread EXCEPT !.pc = "send", !.fn = "check_static",
                                                  !.opNo = nOps + 1, !.sendq = sends]]
    /\ nOps' = nOps + 1
    /\ UNCHANGED <<cache, cacheMtx, disposed, channel, fdTable, envVars, fdVars, rp,
                   insCalls, consults, slCfg, binFs, od>>

\* the executable is rebuilt or touched: its modification time or its linkage changes
FsTouch(path, mtim, linkage) ==
    /\ ~aborted
    /\ binFs[path] # [mtim |-> mtim, linkage |-> linkage]
    /\ binFs' = [binFs EXCEPT ![path] = [mtim |-> mtim, linkage |-> linkage]]
    /\ UNCHANGED <<cache, cacheMtx, disposed, aborted, channel, fdTable, envVars, fdVars,
                   rp, th, insCalls, consults, nOps, slCfg, slCache, ptraceOk, slLast,
                   od>>

InitStatic ==
    /\ InitObserver
    /\ useFdTable = TRUE
    /\ procFd = NoFdLinks
    /\ logging = FALSE
    /\ failUnexpected = FALSE
    /\ links = NoLinks
    /\ slCfg \in StaticConfigs
    /\ \E l \in Linkages :
          binFs = (PathLd :> [mtim |-> [sec |-> 1, nsec |-> 0], linkage |-> l])
                  @@ (PathCc :> [mtim |-> [sec |-> 1, nsec |-> 0], linkage |-> "dynamic"])

NextStatic ==
    \/ CallCheckStatic("t1")
    \/ \E m \in Mtims, l \in Linkages : FsTouch(PathCc, m, l)
    \/ SendNext("t1")
    \/ Complete("t1")

SpecStatic == InitStatic /\ [][NextStatic]_vars

-----------------------------------------------------------------------------
(* SpecArgs: command lines and debug messages with delimiters in them are reported *)

\* the contents of /proc/<pid>/cmdline: the arguments, each followed by a NUL
ProcCmdline(args) ==
    IF args = <<>> THEN <<>>
    ELSE LET RECURSIVE cat(_)
             cat(as) == IF as = <<>> THEN <<>> ELSE Head(as) \o <<"NUL">> \o cat(Tail(as))
         IN  cat(args)

\* lines 409-423: the arguments of the buffer, from one NUL to the next, strung
\* together with one space between them
RECURSIVE JoinArgs(_, _, _)
JoinArgs(buffer, cur, firstArg) ==
    IF buffer = <<>> THEN <<>>
    ELSE IF Head(buffer) = "NUL"
    THEN (IF firstArg THEN <<>> ELSE <<" ">>) \o cur \o JoinArgs(Tail(buffer), <<>>, FALSE)
    ELSE JoinArgs(Tail(buffer), Append(cur, Head(buffer)), firstArg)

\* lines 426-443: the report of report_exec_args for the bytes read from cmdline;
\* strlcpy keeps at most MAXPATHLEN - 1 characters of the command line
ExecArgsReport(buffer) ==
    LET cmdLine == JoinArgs(buffer, <<>>, TRUE)
    IN  [operation |-> "kOpProcessCommandLine", pid |-> Ids.pid, rootPid |-> Ids.rootPid,
         requestedAccess |-> AccessCode.Read, status |-> StatusCode.Allowed,
         reportExplicitly |-> 1, error |-> 0, pipId |-> Ids.pipId,
         path |-> SubSeq(cmdLine, 1, Min(Len(cmdLine), MAXPATHLEN - 1)),
         isDirectory |-> 0, shouldReport |-> TRUE]

\* the argument vectors of the processes whose command line is reported
ArgLists ==
    {<<<<"s", "h">>>>,
     <<<<"s", "h">>, <<"-", "c">>, <<"a", "|", "b">>>>,
     <<<<"e", "c", "h", "o">>, <<"x", "\n", "y">>>>}

\* void BxlObserver::report_exec_args(pid_t pid), lines 393-446, when
\* IsReportingProcessArgs() holds
CallReportExecArgs(t) ==
    /\ ~aborted
    /\ th[t].pc = "idle"
    /\ nOps < MaxOps
    /\ \E args \in ArgLists :
          th' = [th EXCEPT ![t] =
                    [IdleThread EXCEPT !.pc = "send", !.fn = "report_exec_args",
                                       !.opNo = nOps + 1,
                                       !.sendq = <<SendCall(ExecArgsReport(ProcCmdline(args)),
                                                            FALSE)>>]]
    /\ nOps' = nOps + 1
    /\ UNCHANGED <<cache, cacheMtx, disposed, aborted, channel, fdTable, envVars, slVars,
                   fdVars, rp, insCalls, consults>>

InitArgs ==
    /\ InitObserver
    /\ slCfg = NoTracing
    /\ binFs = NoBinaries
    /\ useFdTable = TRUE
    /\ procFd = NoFdLinks
    /\ logging = TRUE
    /\ failUnexpected = FALSE
    /\ links = NoLinks

NextArgs ==
    \/ CallReportExecArgs("t1")
    \/ CallLogDebug("t1")
    \/ SendNext("t1")
    \/ Complete("t1")

SpecArgs == InitArgs /\ [][NextArgs]_vars

-----------------------------------------------------------------------------
(* SpecFdAccess: accesses by path and by descriptor, some of them malformed *)

\* report_access_fd (lines 591-597) and create_access_fd (lines 599-616), up to the
\* call of create_access_internal: get_mode(fd) answers mode
InterceptFd(t, fd, event, mode) ==
    /\ ~aborted
    /\ th[t].pc = "idle"
    /\ nOps < MaxOps
    /\ LET in == [Input("report_access_fd", event, EmptyStr, EmptyStr, mode, TRUE, TRUE,
                        TRUE, FALSE) EXCEPT !.fd = fd, !.mode = mode]
           base == [IdleThread EXCEPT !.fn = in.entry, !.opNo = nOps + 1,
                                      !.prev = Summary(th[t]),
                                      !.known = IF CacheKey("READLINK") \in DOMAIN cache
                                                THEN cache[CacheKey("READLINK")] ELSE {}]
       IN  IF is_non_file(mode)
           THEN /\ th' = [th EXCEPT ![t] = [base EXCEPT !.inp = in, !.pc = "send"]]
                /\ UNCHANGED fdTable                           \* return sNotChecked
           ELSE LET f == fd_to_path(fdTable, useFdTable, procFd, fd)
                    item == Item(event, f.ret, EmptyStr, mode, TRUE)
                    rec == [base EXCEPT !.inp = [in EXCEPT !.pathname = f.ret]]
                IN  /\ fdTable' = f.table
                    /\ th' = [th EXCEPT ![t] =
                                IF Len(f.ret) > 0
                                THEN StartItem([rec EXCEPT !.todo = <<item>>], item)
                                ELSE [rec EXCEPT !.pc = "send"]] \* return sNotChecked
    /\ nOps' = nOps + 1
    /\ UNCHANGED <<cache, cacheMtx, disposed, aborted, channel, envVars, slVars, fdVars,
                   rp, insCalls, consults>>

\* the descriptors of the intercepted calls: two the table has an entry for, one
\* it has none for
AccessFds == {0, 1, 3}

\* what get_mode answers for a descriptor: a regular file, a pipe
FdModes == {"reg", "fifo"}

FdAccessInputs ==
    {Input("report_access_path", "WRITE", PathOut, EmptyStr, "reg", TRUE, TRUE, TRUE, FALSE),
     Input("report_access_path", "WRITE", NullPtr, EmptyStr, "reg", TRUE, TRUE, TRUE, FALSE),
     Input("report_access_path", "WRITE", PathOut, EmptyStr, "sock", TRUE, TRUE, TRUE, FALSE),
     Input("report_access_path", "OPEN", PathMemfd, EmptyStr, "reg", TRUE, TRUE, TRUE, FALSE),
     Input("report_access_paths", "RENAME", PathOut, NullPtr, "reg", TRUE, TRUE, TRUE, FALSE),
     Input("report_access_paths", "RENAME", PathOut, PathMemfd, "reg", TRUE, TRUE, TRUE, FALSE)}

InitFdAccess ==
    /\ InitObserver
    /\ slCfg = NoTracing
    /\ binFs = NoBinaries
    /\ useFdTable = TRUE
    /\ procFd = NoFdLinks
    /\ logging \in BOOLEAN
    /\ failUnexpected = FALSE
    /\ links = NoLinks

NextFdAccess ==
    \/ Intercept("t1", FdAccessInputs)
    \/ \E fd \in AccessFds, mode \in FdModes : InterceptFd("t1", fd, "WRITE", mode)
    \/ LockAcquire("t1")
    \/ CriticalSection("t1")
    \/ Probed("t1")
    \/ Check("t1")
    \/ Log("t1")
    \/ SendNext("t1")
    \/ Complete("t1")
    \/ \E path \in FdPaths \cup {EmptyStr} : FsChange(1, path)
    \/ \E path \in {PathB, EmptyStr} : FsChange(0, path)

SpecFdAccess == InitFdAccess /\ [][NextFdAccess]_vars

-----------------------------------------------------------------------------
(* SpecSplice: resolve_path with link targets that do not fit into the buffers *)

\* the size of the buffers in this specification: PATH_MAX, brought down to the
\* length of the paths modelled
BufCap == 8

\* /x -> /y/y/y/y : a target that fits into readlinkBuf with its NUL and no more
LongLink == (<<"/", "x">> :> <<"/", "y", "/", "y", "/", "y", "/", "y">>)

SpliceLinks == {OneLink, RelLinks, LongLink}

\* the paths that fit, with their NUL, into the caller's buffer
SpliceInputs == {path \in ResolveInputs : Len(path) + 1 <= BufCap}

\* one round of the loop with buffers of BufCap characters
SpliceStep == ResolveStepCap(BufCap)

InitSplice ==
    /\ InitObserver
    /\ slCfg = NoTracing
    /\ binFs = NoBinaries
    /\ useFdTable = TRUE
    /\ procFd = NoFdLinks
    /\ logging = FALSE
    /\ failUnexpected = FALSE
    /\ links \in SpliceLinks

NextSplice ==
    \/ \E fullpath \in SpliceInputs, f \in BOOLEAN : ResolveStart(fullpath, f)
    \/ SpliceStep
    \/ ResolveReturn

SpecSplice == InitSplice /\ [][NextSplice]_vars

-----------------------------------------------------------------------------
(* SpecObjdump: is_statically_linked forks the inspection tool and reads its output *)

\* chunks of output the pipe holds at most, and that are counted in result
MaxChunks == 2

\* how read(pipefd[0], ...) of line 889 fails: never, once (a signal interrupts
\* it), or every time (pipe() of line 864, whose result is not looked at, has
\* failed and pipefd[0] is no open descriptor)
ReadErrors == {"never", "once", "always"}

\* lines 860-887: pipe, fork, and in the parent the close of the write end.
\* forked: real_fork did not answer -1.  tolerated: what the write of line 895 to
\* buffer[-1] does to this process.  others: the process has another child running.
InspectStart(forked, readErr, tolerated, others) ==
    /\ ~aborted
    /\ od.pc = "idle"
    /\ od.n < MaxCalls
    /\ od' = [pc |-> "read", n |-> od.n + 1,
              child |-> IF forked THEN "running" ELSE "nofork",
              pending |-> 0, got |-> 0, readErr |-> readErr, erred |-> FALSE,
              tolerated |-> tolerated, others |-> others, beyond |-> FALSE]
    /\ UNCHANGED <<cache, cacheMtx, disposed, aborted, channel, fdTable, envVars, fdVars,
                   rp, th, insCalls, consults, nOps, slCfg, slCache, ptraceOk, binFs,
                   slLast>>

\* lines 868-881: objdump, its output going to the pipe, writes some of it
ChildWrite ==
    /\ ~aborted
    /\ od.child = "running"
    /\ od.pending < MaxChunks
    /\ od' = [od EXCEPT !.pending = od.pending + 1]
    /\ UNCHANGED <<cache, cacheMtx, disposed, aborted, channel, fdTable, envVars, fdVars,
                   rp, th, insCalls, consults, nOps, slCfg, slCache, ptraceOk, binFs,
                   slLast>>

\* objdump ends (or execvpe failed and line 881 ended the child): the last write
\* end of the pipe is closed
ChildExit ==
    /\ ~aborted
    /\ od.child = "running"
    /\ od' = [od EXCEPT !.child = "exited"]
    /\ UNCHANGED <<cache, cacheMtx, disposed, aborted, channel, fdTable, envVars, fdVars,
                   rp, th, insCalls, consults, nOps, slCfg, slCache, ptraceOk, binFs,
                   slLast>>

\* lines 890-893: the loop is left when read answers 0, and only then
read_ends_loop(bytesRead) == bytesRead = 0

\* one round of the loop of lines 887-897.  read answers -1, a positive count, or
\* 0 at end of file; it blocks while the pipe is empty and the child has it open.
InspectRead ==
    /\ ~aborted
    /\ od.pc = "read"
    /\ LET fails == od.readErr = "always" \/ (od.readErr = "once" /\ ~od.erred)
           bytesRead == IF fails THEN -1
                        ELSE IF od.pending > 0 THEN 1
                        ELSE 0
       IN  /\ fails \/ od.pending > 0 \/ od.child # "running"
           /\ IF read_ends_loop(bytesRead)
              THEN /\ od' = [od EXCEPT !.pc = "wait"]
                   /\ UNCHANGED aborted
              ELSE IF bytesRead < 0
              THEN \* line 895 writes buffer[-1]; line 896 appends what buffer holds
                   /\ od' = [od EXCEPT !.erred = TRUE, !.beyond = TRUE]
                   /\ aborted' = ~od.tolerated
              ELSE /\ od' = [od EXCEPT !.pending = od.pending - 1,
                                       !.got = IF od.got < MaxChunks THEN od.got + 1
                                               ELSE od.got]
                   /\ UNCHANGED aborted
    /\ UNCHANGED <<cache, cacheMtx, disposed, channel, fdTable, envVars, fdVars,
                   rp, th, insCalls, consults, nOps, slCfg, slCache, ptraceOk, binFs,
                   slLast>>

\* lines 899-902: waitpid(objDumpChild, &status, 0).  After a failed fork
\* objDumpChild is -1 and waitpid waits for any child of the process: it returns
\* when one has ended, or at once when there is none.
InspectWait ==
    /\ ~aborted
    /\ od.pc = "wait"
    /\ od.child = "exited" \/ (od.child = "nofork" /\ ~od.others)
    /\ od' = [od EXCEPT !.pc = "returned"]
    /\ UNCHANGED <<cache, cacheMtx, disposed, aborted, channel, fdTable, envVars, fdVars,
                   rp, th, insCalls, consults, nOps, slCfg, slCache, ptraceOk, binFs,
                   slLast>>

\* another child of the process ends
OtherChildExit ==
    /\ ~aborted
    /\ od.others
    /\ od' = [od EXCEPT !.others = FALSE]
    /\ UNCHANGED <<cache, cacheMtx, disposed, aborted, channel, fdTable, envVars, fdVars,
                   rp, th, insCalls, consults, nOps, slCfg, slCache, ptraceOk, binFs,
                   slLast>>

\* line 913: is_statically_linked returns to check_and_report_statically_linked_process
InspectReturn ==
    /\ ~aborted
    /\ od.pc = "returned"
    /\ od' = [od EXCEPT !.pc = "idle", !.child = "none"]
    /\ UNCHANGED <<cache, cacheMtx, disposed, aborted, channel, fdTable, envVars, fdVars,
                   rp, th, insCalls, consults, nOps, slCfg, slCache, ptraceOk, binFs,
                   slLast>>

InitObjdump ==
    /\ InitObserver
    /\ slCfg = NoTracing
    /\ binFs = NoBinaries
    /\ useFdTable = TRUE
    /\ procFd = NoFdLinks
    /\ logging = FALSE
    /\ failUnexpected = FALSE
    /\ links = NoLinks

NextObjdump ==
    \/ \E forked \in BOOLEAN, readErr \in ReadErrors, tolerated \in BOOLEAN,
          others \in BOOLEAN : InspectStart(forked, readErr, tolerated, others)
    \/ ChildWrite
    \/ ChildExit
    \/ InspectRead
    \/ InspectWait
    \/ OtherChildExit
    \/ InspectReturn

SpecObjdump == InitObjdump /\ [][NextObjdump]_vars

\* the calling thread keeps running, and the inspection tool comes to an end
SpecObjdumpFair ==
    /\ SpecObjdump
    /\ WF_vars(InspectRead)
    /\ WF_vars(InspectWait)
    /\ WF_vars(ChildExit)

-----------------------------------------------------------------------------
(* SpecTwoPath: process events, two-path operations, and single-path ones after them *)

TwoPathInputs ==
    {Input("report_access_paths", "RENAME", PathOut, PathB, "reg", TRUE, TRUE, TRUE, FALSE),
     Input("report_access_path", "RENAME", PathOut, EmptyStr, "reg", TRUE, TRUE, TRUE, FALSE),
     Input("report_access_paths", "EXEC", PathOut, EmptyStr, "reg", TRUE, TRUE, TRUE, FALSE),
     Input("report_access_paths", "FORK", PathOut, EmptyStr, "reg", TRUE, TRUE, TRUE, FALSE),
     Input("report_access_path", "WRITE", PathOut, EmptyStr, "reg", TRUE, TRUE, TRUE, FALSE)}

InitTwoPath ==
    /\ InitObserver
    /\ slCfg = NoTracing
    /\ binFs = NoBinaries
    /\ useFdTable = TRUE
    /\ procFd = NoFdLinks
    /\ logging \in BOOLEAN
    /\ failUnexpected = FALSE
    /\ links = NoLinks

NextTwoPath ==
    \/ Intercept("t1", TwoPathInputs)
    \/ LockAcquire("t1")
    \/ CriticalSection("t1")
    \/ Probed("t1")
    \/ Check("t1")
    \/ Log("t1")
    \/ SendNext("t1")
    \/ Complete("t1")

SpecTwoPath == InitTwoPath /\ [][NextTwoPath]_vars

-----------------------------------------------------------------------------
(* SpecFdPid: descriptors of several processes are resolved through the one table *)

\* the values of associatedPid: 0 (the calling process, /proc/self) and the pid of
\* a traced child
Pids == {0, 7}

\* the descriptor numbers of the calls: one the table has an entry for, one it has
\* none for
PidFds == {1, 3}

\* fd_to_path(fd, associatedPid), lines 953-985: read_path_for_fd (lines 921-935)
\* reads /proc/<associatedPid>/fd/<fd>, the table is indexed by fd alone
FdToPathOf(fd, pid) ==
    LET r == fd_to_path(fdTable, useFdTable, procFd[pid], fd)
    IN  /\ fdTable' = r.table
        /\ fdLast' = [tick |-> 1 - fdLast.tick, fd |-> fd, pid |-> pid, ret |-> r.ret,
                      readFs |-> r.readFs]
        /\ UNCHANGED <<cache, cacheMtx, disposed, aborted, channel, envVars, slVars, th,
                       insCalls, consults, nOps, useFdTable, procFd, rp>>

\* a process opens, closes or reuses one of its descriptors
FsChangeOf(pid, fd, path) ==
    /\ procFd[pid][fd] # path
    /\ procFd' = [procFd EXCEPT ![pid][fd] = path]
    /\ UNCHANGED <<cache, cacheMtx, disposed, aborted, channel, fdTable, envVars, slVars,
                   th, insCalls, consults, nOps, useFdTable, fdLast, rp>>

InitFdPid ==
    /\ InitObserver
    /\ slCfg = NoTracing
    /\ binFs = NoBinaries
    /\ useFdTable \in BOOLEAN
    /\ procFd = [pid \in Pids |-> NoFdLinks]
    /\ logging = FALSE
    /\ failUnexpected = FALSE
    /\ links = NoLinks

NextFdPid ==
    \/ \E fd \in PidFds, pid \in Pids : FdToPathOf(fd, pid)
    \/ \E fd \in PidFds : ResetFdTableEntry(fd)
    \/ \E pid \in Pids, fd \in PidFds, path \in FdPaths \cup {EmptyStr} :
          FsChangeOf(pid, fd, path)

SpecFdPid == InitFdPid /\ [][NextFdPid]_vars

-----------------------------------------------------------------------------
(* The end-to-end scenario, checked under SpecSeq *)

\* a write-class open of /tmp/build/../build/out.txt that the policy engine allows
\* and wants reported
WriteOpenAllowed(in) ==
    /\ in.entry = "report_access_path"
    /\ in.ev \in WriteCases
    /\ in.pathname = PathDotDot
    /\ in.fsMode = "reg"
    /\ in.enabled /\ in.report /\ ~in.deny

\* the thread is back from the operation it intercepted
Finished(t) == th[t].pc = "idle" /\ th[t].opNo > 0

\* a later report_access for the same file with a kind of the first one's cache key
SameAgain(in, first) ==
    /\ in.entry = "report_access_path"
    /\ in.pathname \in {PathDotDot, PathOut}
    /\ CacheKey(in.ev) = CacheKey(first.ev)
    /\ in.checkCache

-----------------------------------------------------------------------------
(* Claims about the duplicate cache, checked under SpecCache *)

\* the threads whose CheckCache call has just returned with the mutex acquired
Returned(t) == th[t].pc = "ret" /\ th[t].locked

\* C2, as stated: per event kind e and path p, the first inserting CheckCache call
\* misses, every later call for the same e and p hits, and nothing is ever removed.
C2_MissThenHitPerEvent ==
    /\ \A t \in Threads :
          Returned(t) =>
              LET seen == <<th[t].ev, th[t].path>> \in th[t].insBefore
              IN  /\ seen => th[t].ret
                  /\ (th[t].add /\ ~seen) => ~th[t].ret
    /\ \A c \in insCalls :
          CacheKey(c[1]) \in DOMAIN cache /\ c[2] \in cache[CacheKey(c[1])]

\* C2, amended: with the mutex acquired, CheckCache(e, p, _) misses exactly when no
\* earlier inserting call was made for p with a kind of the same cache key as e, so
\* the first inserting call for a key and path misses and every later call for them
\* hits; and nothing that was inserted is ever removed.
C2_MissThenHitPerKey ==
    /\ \A t \in Threads :
          Returned(t) =>
              (th[t].ret <=> \E c \in th[t].insBefore :
                                /\ CacheKey(c[1]) = CacheKey(th[t].ev)
                                /\ c[2] = th[t].path)
    /\ \A c \in insCalls :
          CacheKey(c[1]) \in DOMAIN cache /\ c[2] \in cache[CacheKey(c[1])]

\* a second call for an event kind and path that were inserted before has returned a hit
C2_Witness ==
    \E t \in Threads :
        /\ Returned(t)
        /\ th[t].fn = "CheckCache"
        /\ th[t].ret
        /\ <<th[t].ev, th[t].path>> \in th[t].insBefore

\* the buckets the specification names: the write-like and the stat-like kinds
SameBucket(e1, e2) ==
    \/ e1 \in WriteCases /\ e2 \in WriteCases
    \/ e1 \in StatCases /\ e2 \in StatCases

\* C3: after CheckCache(e1, p, true), a CheckCache call for p with a kind e2 of the
\* same bucket as e1 (write-like or stat-like) returns a hit.
C3_SameBucketHit ==
    \A t \in Threads :
        (/\ Returned(t)
         /\ \E c \in th[t].insBefore : c[2] = th[t].path /\ SameBucket(c[1], th[t].ev))
        => th[t].ret

\* C4: IsCacheHit returns false for FORK, EXEC and EXIT and for every event with a
\* non-empty second path, whatever the cache holds, without looking at the cache.
C4_ProcessAndTwoPathNeverHit ==
    \A t \in Threads :
        (/\ th[t].pc = "ret"
         /\ th[t].fn = "IsCacheHit"
         /\ (th[t].ev \in ProcessEvents \/ Len(th[t].second) > 0))
        => (~th[t].ret /\ th[t].probe = "bypass")

\* IsCacheHit has answered for an EXEC event whose key and path are in the cache
C4_Witness ==
    \E t \in Threads :
        /\ th[t].pc = "ret"
        /\ th[t].fn = "IsCacheHit"
        /\ th[t].ev = "EXEC"
        /\ th[t].second = EmptyStr
        /\ ~disposed
        /\ CheckCacheResult(cache, th[t].ev, th[t].path, FALSE)
        /\ ~th[t].ret

-----------------------------------------------------------------------------
(* The bounded wait for the cache mutex, checked under SpecFair *)

\* a step in which thread t leaves its wait for the mutex without having got it
GivesUpWaiting(t) ==
    /\ th[t].pc = "lock"
    /\ th'[t].pc # "lock"
    /\ cacheMtx' # t

\* C5: when another thread holds the cache mutex for longer than the bounded wait,
\* even forever, CheckCache returns false without inserting anything, and the calling
\* thread goes on to consult the policy engine and to send its report: it never stays
\* waiting for the mutex.
C5_TimeoutIsMiss ==
    /\ [][\A t \in Threads :
             GivesUpWaiting(t) =>
                /\ cacheMtx \notin {"free", t}
                /\ ~th'[t].ret
                /\ cache' = cache /\ insCalls' = insCalls /\ cacheMtx' = cacheMtx
                /\ th'[t].pc \in {"probed", "log"}]_vars
    /\ [](\A t \in Threads :
             (Finished(t) /\ th[t].probe = "timeout") =>
                (th[t].consulted /\ Len(th[t].sent) = 1))
    /\ \A t \in Threads : (th[t].pc = "lock") ~> (th[t].pc # "lock" \/ aborted)

\* thread t2 still holds the mutex; thread t1 timed out on it, consulted the policy
\* engine and sent its report
C5_Witness ==
    /\ cacheMtx = "t2"
    /\ Finished("t1")
    /\ th["t1"].probe = "timeout"
    /\ th["t1"].consulted
    /\ Len(th["t1"].sent) = 1
    /\ \E i \in DOMAIN channel : channel[i].writer = "t1"

-----------------------------------------------------------------------------
(* The cache after disposal and what membership means, checked under SpecSeq *)

\* C6: once the observer is marked disposed, every cache operation is a no-op: no
\* operation reachable from the access-reporting entry points (report_access,
\* create_access) mutates the cache map any more.
C6_InertAfterDisposal == [][disposed => cache' = cache]_vars

\* a member of the cache: a cache key and a path
IsMember(k, p) == k \in DOMAIN cache /\ p \in cache[k]

\* C7, as stated: every (bucket, path) member of the cache corresponds to an access
\* for that bucket and path already reported to the build engine with an allow decision.
C7_MemberWasReportedAllowed ==
    \A k \in DOMAIN cache : \A p \in cache[k] :
        \E i \in DOMAIN channel :
            /\ ~channel[i].isDebug
            /\ CacheKey(channel[i].report.operation) = k
            /\ channel[i].report.path = p
            /\ channel[i].report.status = StatusCode.Allowed

\* C7, amended: every (bucket, path) member of the cache corresponds to an access for
\* that bucket and path on which the policy engine was consulted and which was not
\* going to be blocked (allowed, or denied while unexpected accesses are not failed);
\* it may not have been reported yet, or at all.
C7_MemberWasCheckedNotBlocked ==
    \A k \in DOMAIN cache : \A p \in cache[k] :
        \E c \in consults :
            /\ CacheKey(c.ev) = k
            /\ c.path = p
            /\ ~(c.deny /\ failUnexpected)

\* a path is in the cache although the policy engine only ever denied it and the only
\* reports on the channel say denied
C7_Witness ==
    /\ IsMember("WRITE", PathOut)
    /\ consults # {}
    /\ \A c \in consults : c.deny
    /\ channel # <<>>
    /\ \A i \in DOMAIN channel : channel[i].report.status = StatusCode.Denied
    /\ Finished("t1")

-----------------------------------------------------------------------------
(* Message sizes, checked under SpecSend *)

\* what SendReport is about to be called with by thread t
NextCall(t) == Head(th[t].sendq)

\* thread t is about to call SendReport for a report it serializes
Sending(t) ==
    /\ th[t].pc = "send"
    /\ th[t].sendq # <<>>
    /\ NextCall(t).report.operation # "kOpProcessTreeCompleted"

\* the record of thread t's next report does not fit
TooBig(t) ==
    Len(BuildReportText(NextCall(t).report, NextCall(t).report.path)) >= maxMessageLength

\* the write calls thread t makes in a step
NewChunks(t) ==
    {i \in DOMAIN channel' : i > Len(channel) /\ channel'[i].writer = t}

\* C8: every message on the channel was written by exactly one write call, whose byte
\* count is the whole message, prefix and record, and is at most PIPE_BUF.
C8_OneAtomicWrite ==
    \A i \in DOMAIN channel :
        /\ channel[i].n <= PIPE_BUF
        /\ channel[i].n = PrefixLength + Len(channel[i].rec)
        /\ \A j \in DOMAIN channel : channel[j].mid = channel[i].mid => j = i

\* two threads have each written a message, one of them of PIPE_BUF - 1 bytes
C8_Witness ==
    /\ Len(channel) = 2
    /\ channel[1].writer # channel[2].writer
    /\ \E i \in DOMAIN channel : channel[i].n = PIPE_BUF - 1

\* C9: SendReport for a non-debug report whose record does not fit aborts the process
\* and writes nothing; every non-debug message on the channel is the whole record.
C9_NonDebugTooBigIsFatal ==
    /\ [][\A t \in Threads :
             (Sending(t) /\ ~NextCall(t).isDebug /\ TooBig(t)) =>
                /\ NewChunks(t) = {}
                /\ th'[t] = th[t]
                /\ SendNext(t) => aborted']_vars
    /\ [](\A i \in DOMAIN channel :
             ~channel[i].isDebug =>
                /\ channel[i].rec = BuildReportText(channel[i].report, channel[i].report.path)
                /\ channel[i].prefix = Len(channel[i].rec))

\* the process was aborted on a non-debug report that does not fit, after another
\* non-debug report has gone out whole
C9_Witness ==
    /\ aborted
    /\ \E t \in Threads : Sending(t) /\ ~NextCall(t).isDebug /\ TooBig(t)
    /\ \E i \in DOMAIN channel : ~channel[i].isDebug

\* the path a record on the channel carries
PathSent(chunk) ==
    SubSeq(chunk.report.path, 1, Len(chunk.rec) - RecordOverhead)

C11_PrefixIsRecordLength ==
    \A i \in DOMAIN channel :
        /\ channel[i].prefix = Len(channel[i].rec)
        /\ channel[i].n = channel[i].prefix + PrefixLength

\* a truncated debug message and an access report of the largest size that fits are
\* both on the channel
C11_Witness ==
    /\ \E i \in DOMAIN channel :
          channel[i].isDebug /\ Len(PathSent(channel[i])) < Len(channel[i].report.path)
    /\ \E i \in DOMAIN channel :
          ~channel[i].isDebug /\ channel[i].prefix = maxMessageLength - 1

-----------------------------------------------------------------------------
(* Report groups, checked under SpecGroup *)

\* the positions on the channel of the messages thread t wrote for its operation
ChunksOf(t) ==
    {i \in DOMAIN channel : channel[i].mid[1] = t /\ channel[i].mid[2] = th[t].opNo}

\* C12: SendReport(group) sends the first report if and only if its shouldReport is
\* set and the second if and only if its shouldReport is set, the first before the
\* second; a group with neither flag set writes nothing to the channel.
C12_GroupSendsFlagged ==
    \A t \in Threads :
        (Finished(t) /\ th[t].fn = "SendReportGroup") =>
            LET first == th[t].grp[1]
                second == th[t].grp[2]
                sent == th[t].sent
            IN  /\ Len(sent) = (IF first.shouldReport THEN 1 ELSE 0)
                               + (IF second.shouldReport THEN 1 ELSE 0)
                /\ first.shouldReport => sent[1] = first
                /\ second.shouldReport => sent[Len(sent)] = second
                /\ \A i \in ChunksOf(t) : \E k \in DOMAIN sent :
                      channel[i].mid[3] = k /\ channel[i].report = sent[k]
                /\ \A i, j \in ChunksOf(t) :
                      (channel[i].report = first /\ channel[j].report = second /\ i # j)
                      => i < j
                /\ (~first.shouldReport /\ ~second.shouldReport) => ChunksOf(t) = {}

\* a group with both reports flagged has been written, first report first, and a group
\* with only the second flagged has been written by the other thread
C12_Witness ==
    \E t, u \in Threads :
        /\ t # u /\ Finished(t) /\ Finished(u)
        /\ th[t].grp[1].shouldReport /\ th[t].grp[2].shouldReport
        /\ Cardinality(ChunksOf(t)) = 2
        /\ ~th[u].grp[1].shouldReport /\ th[u].grp[2].shouldReport
        /\ Cardinality(ChunksOf(u)) = 1

\* C13: the two reports of one two-path operation are sent atomically as a unit: no
\* message of another thread appears on the channel between the first and the second
\* report of the same group.
C13_GroupIsContiguous ==
    \A i, j, k \in DOMAIN channel :
        (/\ i < j /\ j < k
         /\ channel[i].mid[1] = channel[k].mid[1]
         /\ channel[i].mid[2] = channel[k].mid[2])
        => channel[j].mid[1] = channel[i].mid[1]

-----------------------------------------------------------------------------
(* The order of reports on the channel, checked under Spec *)

\* C14, as stated: for one process whose threads intercept concurrently, the reports
\* are on the channel in the order in which the operations were intercepted.
C14_InterceptionOrder ==
    \A i, j \in DOMAIN channel :
        i < j => channel[i].mid[2] <= channel[j].mid[2]

\* C14, amended: for each thread, the reports are on the channel in the order in which
\* that thread intercepted the operations, and every report of an operation has been
\* handed to write when the intercepted call returns (no reordering, no batching);
\* reports of operations intercepted by different threads may come in either order.
C14_InterceptionOrderPerThread ==
    /\ \A i, j \in DOMAIN channel :
          (i < j /\ channel[i].writer = channel[j].writer)
          => \/ channel[i].mid[2] < channel[j].mid[2]
             \/ channel[i].mid[2] = channel[j].mid[2] /\ channel[i].mid[3] < channel[j].mid[3]
    /\ \A t \in Threads :
          /\ th[t].pc = "idle" => th[t].sendq = <<>>
          /\ \A i \in DOMAIN channel :
                channel[i].writer = t =>
                   \/ channel[i].mid[2] < th[t].opNo
                   \/ channel[i].mid[2] = th[t].opNo /\ channel[i].mid[3] <= Len(th[t].sent)

\* one thread has intercepted two operations and written a report for each, the
\* second one for another event kind
C14_Witness ==
    \E t \in Threads :
        /\ Finished(t) /\ th[t].opNo = 2
        /\ Len(channel) = 2
        /\ channel[1].writer = t /\ channel[2].writer = t
        /\ channel[1].mid[2] = 1 /\ channel[2].mid[2] = 2

-----------------------------------------------------------------------------
(* The descriptor table, checked under SpecFd *)

\* this step is a call of fd_to_path
FdCalled == fdLast'.tick # fdLast.tick

\* C15: with the table enabled, a successful resolution of an in-range descriptor
\* stores the path; while the entry stays, calls answer it without reading the file
\* system; the entry goes away only by being emptied (reset_fd_table_entry,
\* reset_fd_table), and once it is empty or the table is disabled the next call
\* reads the file system again.
C15_CachedUntilInvalidated ==
    [][/\ (FdCalled /\ fdLast'.fd \in FdRange /\ useFdTable) =>
            LET fd == fdLast'.fd
            IN  IF fdTable[fd] # EmptyStr
                THEN /\ fdLast'.ret = fdTable[fd]
                     /\ ~fdLast'.readFs
                     /\ fdTable' = fdTable
                ELSE /\ fdLast'.readFs
                     /\ fdLast'.ret = procFd[fd]
                     /\ procFd[fd] # EmptyStr => fdTable'[fd] = procFd[fd]
       /\ (FdCalled /\ ~useFdTable) => fdLast'.readFs /\ fdLast'.ret = procFd[fdLast'.fd]
       /\ \A fd \in FdRange :
            (fdTable[fd] # EmptyStr /\ fdTable'[fd] # fdTable[fd]) =>
                fdTable'[fd] = EmptyStr /\ ~FdCalled
      ]_vars

\* a call was answered from the table although the descriptor now stands for
\* something else
C15_Witness ==
    /\ useFdTable
    /\ fdLast.fd \in FdRange
    /\ ~fdLast.readFs
    /\ fdLast.ret # EmptyStr
    /\ fdLast.ret = fdTable[fdLast.fd]
    /\ fdLast.ret # procFd[fdLast.fd]

\* C16: an entry becomes non-empty only by a successful resolution of that
\* in-range descriptor with the table enabled; a call with an out-of-range
\* descriptor, with the table disabled, or whose read fails, reads the file
\* system and leaves the table as it was, and a failed read answers the empty path.
C16_OnlySuccessfulResolutionFills ==
    [][/\ \A fd \in FdRange :
            (fdTable[fd] = EmptyStr /\ fdTable'[fd] # EmptyStr) =>
                /\ FdCalled
                /\ fdLast'.fd = fd
                /\ useFdTable
                /\ procFd[fd] # EmptyStr
                /\ fdTable'[fd] = procFd[fd]
       /\ (FdCalled /\ (fdLast'.fd \notin FdRange \/ ~useFdTable)) =>
                /\ fdLast'.readFs
                /\ fdTable' = fdTable
                /\ fdLast'.ret = procFd[fdLast'.fd]
       /\ (FdCalled /\ fdLast'.readFs /\ procFd[fdLast'.fd] = EmptyStr) =>
                /\ fdTable' = fdTable
                /\ fdLast'.ret = EmptyStr
      ]_vars

\* the table is disabled with an empty entry, and a call for that descriptor has
\* read its path from the file system
C16_Witness ==
    /\ ~useFdTable
    /\ fdLast.fd \in FdRange
    /\ fdLast.readFs
    /\ fdLast.ret # EmptyStr
    /\ fdTable[fdLast.fd] = EmptyStr

-----------------------------------------------------------------------------
(* Path resolution, checked under SpecResolve and SpecResolveFair *)

\* the components of an absolute path: what stands between its slashes
RECURSIVE ComponentsFrom(_, _, _)
ComponentsFrom(path, i, cur) ==
    IF i > Len(path) THEN <<cur>>
    ELSE IF path[i] = "/" THEN <<cur>> \o ComponentsFrom(path, i + 1, <<>>)
    ELSE ComponentsFrom(path, i + 1, Append(cur, path[i]))

Components(path) == ComponentsFrom(path, 2, <<>>)

Unnamed == {<<>>, <<".">>, <<".", ".">>}

\* absolute, and no empty, "." or ".." component
Canonical(path) ==
    /\ path # <<>>
    /\ path[1] = "/"
    /\ \A i \in DOMAIN Components(path) : Components(path)[i] \notin Unnamed

\* no prefix of the path that ends at a component is a symbolic link
NoSymlinkIn(path) ==
    \A n \in 1..Len(path) :
        (n = Len(path) \/ path[n + 1] = "/") => SubSeq(path, 1, n) \notin DOMAIN links

\* C17: resolve_path on a canonical absolute path none of whose components is a
\* symbolic link leaves the buffer as it was and raises no readlink report, with
\* followFinalSymlink true or false.
C17_CanonicalUnchanged ==
    (rp.pc = "done" /\ Canonical(rp.input) /\ NoSymlinkIn(rp.input)) =>
        /\ rp.buf = rp.input
        /\ rp.reports = <<>>

\* a canonical path of several components was walked to its end, the final
\* component included, in a file system that has symbolic links elsewhere
C17_Witness ==
    /\ rp.pc = "done"
    /\ Canonical(rp.input)
    /\ NoSymlinkIn(rp.input)
    /\ Len(Components(rp.input)) >= 2
    /\ rp.follow
    /\ links # NoLinks
    /\ Len(rp.queries) >= 2

\* the last component of a path
LastComponent(path) == Components(path)[Len(Components(path))]

RoundTripDone == rp.pc = "done" /\ rp.input = PathRoundTrip /\ links = NoLinks

\* C18 as stated: "/a/./b/../c" resolves to "/a/c" and no readlink query is made
\* for "/a/.", "/a/b" or "/a/b/..".
C18_NoQueryForEliminated ==
    RoundTripDone =>
        /\ rp.buf = <<"/", "a", "/", "c">>
        /\ \A i \in DOMAIN rp.queries :
             rp.queries[i] \notin {<<"/", "a", "/", ".">>, <<"/", "a", "/", "b">>,
                                   <<"/", "a", "/", "b", "/", ".", ".">>}

\* C18: "/a/./b/../c" resolves to "/a/c" with no query for "/a/." or "/a/b/..",
\* while "/a/b" is queried before the ".." behind it is reached; in general a
\* query is never made for a prefix that ends in an empty, "." or ".." component
\* and a slash follows: only the query for the whole path at its end can end so.
C18_NoQueryForCollapsed ==
    /\ RoundTripDone =>
        /\ rp.buf = <<"/", "a", "/", "c">>
        /\ \A i \in DOMAIN rp.queries :
             rp.queries[i] \notin {<<"/", "a", "/", ".">>,
                                   <<"/", "a", "/", "b", "/", ".", ".">>}
        /\ \E i \in DOMAIN rp.queries : rp.queries[i] = <<"/", "a", "/", "b">>
    /\ \A i \in DOMAIN rp.queries :
         LastComponent(rp.queries[i]) \in Unnamed =>
            /\ i = Len(rp.queries)
            /\ rp.pc = "done"
            /\ rp.follow
            /\ rp.queries[i] = rp.buf

\* "/a/./b/../c" has been resolved with followFinalSymlink
C18_Witness == RoundTripDone /\ rp.follow /\ Len(rp.queries) = 3

\* C19: every call of resolve_path comes to its end, whatever the path and the
\* links, cyclic ones included, and the process has not been aborted.
C19_ResolveTerminates ==
    (rp.pc = "loop") ~> (rp.pc = "done" /\ ~aborted)

\* the walk of "/x" over the cycle /x -> /y, /y -> /x has stopped at the link it
\* had already reported
C19_Witness ==
    /\ rp.pc = "done"
    /\ links = CycleLinks
    /\ rp.visited = {<<"/", "x">>, <<"/", "y">>}
    /\ rp.buf \in rp.visited
    /\ ~aborted

-----------------------------------------------------------------------------
(* Readlink reports of a normalization, checked under SpecLinks *)

\* the paths of the readlink-class reports among the reports handed to write
ReadlinkPaths(sent) ==
    LET rl == SelectSeq(sent, LAMBDA r : r.operation = "READLINK")
    IN  [i \in 1..Len(rl) |-> rl[i].path]

\* the symbolic links the normalization of the thread's operation traverses, in order
Traversed(t) == normalize_path(th[t].inp.pathname, FALSE, links).reports

\* the thread is back from a report_access whose path leads through a link
NormalizedOverLinks(t) ==
    /\ Finished(t)
    /\ th[t].fn = "report_access_path"
    /\ th[t].inp.report
    /\ Traversed(t) # <<>>

-----------------------------------------------------------------------------
(* Inputs that cannot be normalized, checked under SpecNorm *)

\* C21: normalizing the empty input gives the empty path, and report_access for it
\* sends no report, does not consult the policy engine and leaves the cache as it was.
C21_EmptyInputIsSkipped ==
    \A t \in Threads :
        (Finished(t) /\ th[t].fn = "report_access_path" /\ th[t].inp.pathname = EmptyStr) =>
            /\ normalize_path(th[t].inp.pathname, FALSE, links).path = EmptyStr
            /\ th[t].sent = <<>>
            /\ ~th[t].consulted
            /\ \A c \in insCalls : c[2] # Cwd \o <<"/">>

-----------------------------------------------------------------------------
(* The static-link check, checked under SpecStatic *)

\* this step is a call of check_and_report_statically_linked_process
StaticCalled == slLast'.n # slLast.n

\* the call has returned to its caller
StaticReturned ==
    /\ slLast.n > 0
    /\ th["t1"].pc = "idle"
    /\ th["t1"].fn = "check_static"
    /\ th["t1"].opNo = slLast.n

\* the basename of the path is one of the names of the forced list
OnForcedList(path) ==
    \E i \in DOMAIN ForcedNames(slCfg.forced) : ForcedNames(slCfg.forced)[i] = Basename(path)

\* the verdict a call for the path finds or computes: the cached one for the key of
\* the path as it is now, else what the inspection of the file gives
VerdictFor(path) ==
    LET at == CacheFind(slCache, StaticKey(binFs[path].mtim, path))
    IN  IF at # 0 THEN slCache[at].verdict ELSE binFs[path].linkage = "static"

\* the signal reports among the messages on the channel
SignalChunks ==
    {i \in DOMAIN channel : channel[i].report.operation = "kOpStaticallyLinkedProcess"}

\* C22: a call asks for tracing permission and hands the signal report to the
\* secondary channel, returning true, exactly when secondary tracing is enabled and
\* the name is forced, or tracing is forced for all, or the verdict is statically
\* linked; otherwise it returns false, has granted nothing and has sent nothing.
C22_SignalsExactlyWhenTraced ==
    /\ [][StaticCalled =>
            LET p == slLast'.path
                traced == slCfg.enabled /\ (OnForcedList(p) \/ slCfg.uncond \/ VerdictFor(p))
            IN  /\ slLast'.wanted = traced
                /\ ~traced => (ptraceOk' = ptraceOk /\ ~slLast'.exited)
                /\ ~slLast'.exited =>
                      /\ slLast'.ret = traced
                      /\ slLast'.granted = traced
                      /\ traced => ptraceOk'
       ]_vars
    /\ [](StaticReturned =>
            /\ slLast.ret => /\ Len(th["t1"].sent) = 1
                             /\ th["t1"].sent[1] = StaticReport(slLast.path)
            /\ ~slLast.ret => th["t1"].sent = <<>>)
    /\ [](\A i \in SignalChunks : channel[i].pipe = "secondary")

\* a call for an executable that is not forced has found it statically linked, has
\* written the signal report to the secondary channel and has returned true
C22_Witness ==
    /\ StaticReturned
    /\ slLast.ret
    /\ ~slLast.forced
    /\ slLast.invoked
    /\ ptraceOk
    /\ \E i \in SignalChunks : channel[i].mid[2] = slLast.n /\ channel[i].pipe = "secondary"

\* C23: with secondary tracing enabled, a call for an executable whose basename is
\* on the forced list, or any call when tracing is forced for all, takes the forced
\* decision whatever the linkage and the cache, does not run the inspection tool
\* and leaves the static-link cache as it was.
C23_ForcedSkipsInspection ==
    [][(StaticCalled /\ slCfg.enabled /\ (OnForcedList(slLast'.path) \/ slCfg.uncond)) =>
            /\ slLast'.forced
            /\ slLast'.wanted
            /\ ~slLast'.invoked
            /\ slCache' = slCache
            /\ slLast'.seen = slLast.seen
            /\ ~slLast'.exited => slLast'.ret
      ]_vars

\* a dynamically linked executable named on the forced list has been force-traced
\* while the cache holds a verdict
C23_Witness ==
    /\ StaticReturned
    /\ slLast.forced
    /\ slLast.ret
    /\ slLast.path = PathLd
    /\ slCfg.forced = ForcedList
    /\ binFs[PathLd].linkage = "dynamic"
    /\ slCache # <<>>

\* C24: a signal report is handed to the channel only by a call whose request for
\* tracing permission has succeeded; a call whose request fails ends the process
\* and sends no signal report; permission once granted stays granted.
C24_GrantBeforeSignal ==
    /\ [](\A i \in SignalChunks : ptraceOk)
    /\ [](\A i \in SignalChunks : channel[i].mid[2] = slLast.n => slLast.ok)
    /\ []((th["t1"].fn = "check_static" /\ th["t1"].opNo = slLast.n /\ th["t1"].sendq # <<>>)
             => (slLast.ok /\ ptraceOk))
    /\ []((slLast.wanted /\ ~slLast.ok) =>
             /\ slLast.exited
             /\ aborted
             /\ \A i \in SignalChunks : channel[i].mid[2] # slLast.n)
    /\ [][ptraceOk => ptraceOk']_vars

\* one call was granted permission and wrote its signal report; a later call's
\* request failed and the process has exited without a second signal report
C24_Witness ==
    /\ slLast.wanted
    /\ ~slLast.ok
    /\ aborted
    /\ ptraceOk
    /\ Cardinality(SignalChunks) = 1
    /\ slLast.n = 2

\* C25: in a call that is not forced, with tracing enabled, the inspection tool is
\* run exactly when it has not yet been run for the executable's current
\* modification time and path.
C25_InspectedOncePerMtime ==
    [][(StaticCalled /\ slCfg.enabled /\ ~slLast'.forced) =>
            (slLast'.invoked <=>
                [mtim |-> binFs[slLast'.path].mtim, path |-> slLast'.path] \notin slLast.seen)
      ]_vars

-----------------------------------------------------------------------------
(* Delimiters in free-form fields, checked under SpecArgs *)

\* how many times the character occurs in the text
Occurrences(text, ch) == Cardinality({k \in DOMAIN text : text[k] = ch})

\* C26: in every debug message and every command line written to the channel the
\* only '|' are the nine field delimiters and the only line terminator is the one
\* that ends the record.
C26_NoDelimiterInFreeField ==
    \A i \in DOMAIN channel :
        channel[i].report.operation \in {"kOpDebugMessage", "kOpProcessCommandLine"} =>
            /\ Occurrences(channel[i].rec, "|") = 9
            /\ Occurrences(channel[i].rec, "\n") <= 1
            /\ Occurrences(channel[i].rec, "\r") = 0

-----------------------------------------------------------------------------
(* Malformed inputs, checked under SpecFdAccess *)

\* the input of an operation is malformed: a null path, a non-file mode, or a
\* path of an anonymous file
MalformedInput(in) ==
    /\ in.entry # "none"
    /\ \/ in.pathname = NullPtr
       \/ in.secondPath = NullPtr
       \/ in.fsMode \in {"fifo", "sock"}
       \/ (in.pathname # NullPtr /\ is_anonymous_file(in.pathname))
       \/ (in.secondPath # NullPtr /\ is_anonymous_file(in.secondPath))

-----------------------------------------------------------------------------
(* The descriptor Send opens, checked under SpecFdAccess *)

\* a step in which thread t went through Send with descriptor logFd and Send returned
SendReturned(t, logFd) ==
    /\ SendNextOn(t, logFd)
    /\ Len(th'[t].sent) > Len(th[t].sent)
    /\ ~aborted'

\* C28: when Send returns, the fd table entry of the descriptor it opened is
\* empty, every other entry is as it was, and a fd_to_path for that descriptor
\* reads the file system.
C28_SendResetsItsDescriptor ==
    [][\A t \in Threads, logFd \in OpenFds :
          SendReturned(t, logFd)
          => /\ logFd \in DOMAIN fdTable => fdTable'[logFd] = EmptyStr
             /\ \A fd \in DOMAIN fdTable \ {logFd} : fdTable'[fd] = fdTable[fd]
             /\ fd_to_path(fdTable', useFdTable, procFd, logFd).readFs]_vars

\* descriptors 0 and 1 were resolved and cached; the report about descriptor 1
\* went out through a pipe opened as descriptor 1: its entry is empty, the
\* entry of descriptor 0 is still there
C28_Witness ==
    /\ useFdTable
    /\ th["t1"].inp.fd = 1
    /\ th["t1"].prev.inp.fd = 0
    /\ Len(th["t1"].sent) = 1
    /\ fdTable[0] # EmptyStr
    /\ fdTable[1] = EmptyStr
    /\ ~aborted

-----------------------------------------------------------------------------
(* What resolve_path leaves in the buffer, checked under SpecResolve *)

\* C29: for an absolute input, the path resolve_path leaves in the buffer is the
\* root or has no empty, "." or ".." component, the last component and a
\* trailing separator included.
C29_NoUnnamedComponentLeft ==
    (rp.pc = "done" /\ rp.input[1] = "/") =>
        (rp.buf = <<"/">> \/ Canonical(rp.buf))

-----------------------------------------------------------------------------
(* The splice of a link target, checked under SpecResolve *)

\* the prefix P of the buffer that ends where the scan stands
ScanPrefix == SubSeq(rp.buf, 1, rp.p - 1)

\* the unscanned remainder S
ScanRest == SubSeq(rp.buf, rp.p, Len(rp.buf))

\* the round about to run asks readlink about P and P is a symbolic link
FoundSymlink ==
    /\ rp.pc = "loop"
    /\ collapse_kind(rp.buf, rp.p) = "none"
    /\ (ScanRest # <<>> /\ ScanRest[1] = "/") \/ (ScanRest = <<>> /\ rp.follow)
    /\ ScanPrefix \in DOMAIN links

\* T and S with exactly one separator between them: T less a separator at its
\* end, one separator, S less the separator at its start
JoinedByOne(T, S) ==
    IF S = <<>> THEN T
    ELSE (IF T[Len(T)] = "/" THEN SubSeq(T, 1, Len(T) - 1) ELSE T) \o <<"/">> \o Tail(S)

\* P up to and including its last separator: parent(P)/
ParentOf(P) == SubSeq(P, 1, find_prev_slash(P, Len(P) + 1))

\* the round that runs splices the target of P: an absolute target replaces the
\* buffer and the scan restarts behind the root; a relative one replaces the
\* last segment of P and the scan resumes at its first character
Spliced ==
    LET T == links[ScanPrefix]
    IN  IF T[1] = "/"
        THEN /\ rp'.buf = JoinedByOne(T, ScanRest)
             /\ rp'.p = 2
        ELSE /\ rp'.buf = ParentOf(ScanPrefix) \o JoinedByOne(T, ScanRest)
             /\ rp'.p = Len(ParentOf(ScanPrefix)) + 1

\* C30 as stated: whenever a round finds the prefix P to be a symlink with target
\* T, the buffer becomes T followed by S (absolute T, scan restarted) or
\* parent(P)/T followed by S (relative T, scan at the first character of T),
\* with exactly one separator between T and S.
C30_SymlinkIsSpliced ==
    [][(FoundSymlink /\ rp' # rp) => Spliced]_vars

\* C30: the same, whenever a round finds the prefix P to be a symlink that this
\* call of resolve_path has not visited before.
C30_NewSymlinkIsSpliced ==
    [][(FoundSymlink /\ ScanPrefix \notin rp.visited /\ rp' # rp) => Spliced]_vars

\* /x/x with /x -> y/ : the relative target replaced the last segment of /x, its
\* trailing separator and the one of the remainder became one, and the scan
\* stands at the first character of the target
C30_Witness ==
    /\ links = RelLinks
    /\ rp.pc = "loop"
    /\ rp.input = <<"/", "x", "/", "x">>
    /\ rp.reports = << <<"/", "x">> >>
    /\ rp.buf = <<"/", "y", "/", "x">>
    /\ rp.p = 2

-----------------------------------------------------------------------------
(* The resolved path in a file system without symlink cycles, under SpecResolve *)

\* the path a link's target names, with "//", "/./" and "/../" taken out of it
TargetPath(lnk, P) ==
    LET T == lnk[P]
    IN  resolve_path(IF T[1] = "/" THEN T ELSE ParentOf(P) \o T, FALSE, NoLinks).path

\* Q is the path up to the end of one of the components of path
ComponentPrefix(Q, path) ==
    /\ Len(Q) <= Len(path)
    /\ Q = SubSeq(path, 1, Len(Q))
    /\ (Len(Q) = Len(path) \/ path[Len(Q) + 1] = "/")

\* resolving link P passes through link Q
LinkEdge(lnk, P, Q) == ComponentPrefix(Q, TargetPath(lnk, P))

\* Q is reached from P over at most n + 1 links
RECURSIVE LinkReach(_, _, _, _)
LinkReach(lnk, P, Q, n) ==
    \/ LinkEdge(lnk, P, Q)
    \/ n > 0 /\ \E R \in DOMAIN lnk : LinkEdge(lnk, P, R) /\ LinkReach(lnk, R, Q, n - 1)

\* the symlinks form no cycle
Acyclic(lnk) == \A P \in DOMAIN lnk : ~LinkReach(lnk, P, P, Cardinality(DOMAIN lnk))

\* C31: in a file system whose symlinks form no cycle, when resolve_path returns
\* from an absolute input no intermediate component of the buffer is a symlink,
\* the final one is none when followFinalSymlink is set, and a final name that was
\* not to be followed is still the final name.
C31_CompleteResolvedPath ==
    (rp.pc = "done" /\ rp.input[1] = "/" /\ Acyclic(links)) =>
        /\ \A n \in 1..(Len(rp.buf) - 1) :
              rp.buf[n + 1] = "/" => SubSeq(rp.buf, 1, n) \notin DOMAIN links
        /\ rp.follow => rp.buf \notin DOMAIN links
        /\ (~rp.follow /\ LastComponent(rp.input) \notin Unnamed)
              => LastComponent(rp.buf) = LastComponent(rp.input)

-----------------------------------------------------------------------------
(* Targets that do not fit, checked under SpecSplice *)

\* C32: resolve_path never writes beyond a buffer, and it never goes on, or
\* returns, with a path that did not fit: the process is aborted instead.
C32_NoWriteBeyondBuffer ==
    /\ ~rp.beyond
    /\ (rp.pc # "idle" /\ ~aborted) => Len(rp.buf) + 1 <= BufCap

-----------------------------------------------------------------------------
(* The inspection of a binary comes back, checked under SpecObjdumpFair *)

\* C33: a call of is_statically_linked whose child has ended, or could not be
\* started, returns (unless the process has been killed meanwhile), also when a
\* read of the child's output has failed.
C33_InspectionReturns ==
    (od.pc \in {"read", "wait"} /\ od.child \in {"exited", "nofork"})
        ~> (od.pc = "returned" \/ aborted)

-----------------------------------------------------------------------------
(* Blocked accesses and the cache, checked under SpecSeq *)

\* thread t repeats the access of its previous operation, which the policy engine
\* denied while unexpected accesses fail: both operations are over
BlockedRepeated(t) ==
    /\ Finished(t)
    /\ failUnexpected
    /\ th[t].prev.valid
    /\ th[t].prev.consulted
    /\ th[t].prev.inp.deny
    /\ th[t].inp = th[t].prev.inp

\* C34: no step of an operation whose access is going to be blocked, or whose pid
\* the sandbox is not enabled for, changes the duplicate cache; and the repetition
\* of a blocked access consults the policy engine again and sends the denied
\* report again.
C34_BlockedIsNeverCached ==
    /\ [][\A t \in Threads :
             (th'[t] # th[t] /\ (th'[t].blocked \/ ~th'[t].inp.enabled))
             => (cache' = cache /\ insCalls' = insCalls)]_vars
    /\ [](\A t \in Threads :
             BlockedRepeated(t) =>
                /\ th[t].consulted
                /\ th[t].probe # "hit"
                /\ \E i \in DOMAIN th[t].sent :
                      /\ th[t].sent[i].status = StatusCode.Denied
                      /\ th[t].sent[i].path = th[t].path
                /\ \E i \in DOMAIN th[t].prev.sent :
                      th[t].prev.sent[i].status = StatusCode.Denied)

\* a denied write was repeated with the observer not disposed: the cache was
\* looked up, did not hold it, and the access was blocked again
C34_Witness ==
    /\ BlockedRepeated("t1")
    /\ th["t1"].probe = "miss"
    /\ th["t1"].blocked
    /\ ~disposed

-----------------------------------------------------------------------------
(* Operations IsCacheHit never looks up, checked under SpecTwoPath *)

\* the operation is a FORK, EXEC or EXIT event or takes two paths
NeverLookedUp(in) ==
    in.entry # "none" /\ (in.ev \in ProcessEvents \/ Len(in.secondPath) > 0)

\* C35: no step of a FORK, EXEC or EXIT event or of a two-path operation changes
\* the duplicate cache, and a single-path access that follows such an operation
\* of the same kind and primary path is not a cache hit.
C35_TwoPathLeavesCache ==
    /\ [][\A t \in Threads :
             (th'[t] # th[t] /\ NeverLookedUp(th'[t].inp)) => cache' = cache]_vars
    /\ [](\A t \in Threads :
             (/\ Finished(t)
              /\ th[t].opNo = 2
              /\ ~NeverLookedUp(th[t].inp)
              /\ NeverLookedUp(th[t].prev.inp)
              /\ th[t].prev.inp.ev = th[t].inp.ev
              /\ th[t].prev.inp.pathname = th[t].inp.pathname)
             => th[t].probe # "hit")

-----------------------------------------------------------------------------
(* Concurrent insertions of one pair, checked under Spec *)

\* thread t has come back from CheckCache(event, path, true) of line 544
AddReturned(t) ==
    /\ th[t].consulted
    /\ ~th[t].blocked
    /\ th[t].pc \in {"log", "send", "idle"}

\* the pair of thread t had been inserted when t entered the critical section
InsertedBefore(t) ==
    \E c \in th[t].insBefore :
        c[2] = th[t].path /\ CacheKey(c[1]) = CacheKey(th[t].ev)

\* C36: of the threads that call CheckCache(event, path, true) for one bucket and
\* path and get the lock, the one that enters the critical section first gets
\* false and every other gets true, the pair is in the cache afterwards, and the
\* mutex is free whenever no thread is inside the critical section.
C36_OneMissAmongConcurrent ==
    /\ \A t \in Threads :
          (AddReturned(t) /\ th[t].locked) =>
             /\ th[t].ret = InsertedBefore(t)
             /\ CacheKey(th[t].ev) \in DOMAIN cache
             /\ th[t].path \in cache[CacheKey(th[t].ev)]
    /\ \A t, u \in Threads :
          (/\ t # u
           /\ AddReturned(t) /\ th[t].locked
           /\ AddReturned(u) /\ th[u].locked
           /\ th[t].path = th[u].path
           /\ CacheKey(th[t].ev) = CacheKey(th[u].ev))
          => (th[t].ret # th[u].ret \/ (InsertedBefore(t) /\ InsertedBefore(u)))
    /\ (\A t \in Threads : th[t].pc # "cs") => cacheMtx = "free"

\* both threads missed in IsCacheHit before either had inserted, both went on to
\* insert the same pair with the lock held: t1 was told false, t2 true
C36_Witness ==
    /\ AddReturned("t1") /\ th["t1"].locked /\ th["t1"].probe = "miss"
    /\ AddReturned("t2") /\ th["t2"].locked /\ th["t2"].probe = "miss"
    /\ th["t1"].path = th["t2"].path
    /\ ~th["t1"].ret
    /\ th["t2"].ret

-----------------------------------------------------------------------------
(* Descriptors of different processes, checked under SpecFdPid *)

\* C37: when a call of fd_to_path has read and returned the path of descriptor fd
\* of process pidA, and that path is still the one of pidA, the next call, for the
\* same fd and another process pidB, returns the path of descriptor fd of pidB.
C37_PathOfTheNamedProcess ==
    [][(/\ FdCalled
        /\ fdLast.readFs
        /\ fdLast.ret # EmptyStr
        /\ fdLast.ret = procFd[fdLast.pid][fdLast.fd]
        /\ fdLast'.fd = fdLast.fd
        /\ fdLast'.pid # fdLast.pid)
       => fdLast'.ret = procFd[fdLast'.pid][fdLast'.fd]]_vars

=============================================================================
